---- MODULE Spec2Model ----
(***************************************************************************)
(* Reservation manager front end: the list filter of ReservationList, the  *)
(* weekly grid of ReservationCalendar, the validation and submission of    *)
(* ReservationForm, the useReservations hook with the page that uses it    *)
(* and its Toast, and getRouterBasename.                                   *)
(*                                                                         *)
(* JavaScript values are tagged records: [t |-> "undefined"],              *)
(* [t |-> "null"], [t |-> "string", v |-> "..."], [t |-> "number", v |-> n]*)
(* and [t |-> "object", ...fields].  A Date is [t |-> "date", valid, time]:*)
(* time is the instant in minutes since the epoch (the inputs carry no     *)
(* seconds), and valid = FALSE is the Invalid Date, whose time value is    *)
(* NaN.  The local time zone has offset zero and no daylight saving.       *)
(* Each component has its own specification; the variables of the other    *)
(* components keep their initial values in it.                             *)
(***************************************************************************)
EXTENDS Integers, Sequences, FiniteSets, TLC

VARIABLES reservations, filters, filtered,
          calReservations, weekStart, days, itemsByDay, lastNav,
          values, touched, errors, formPc, submitted, clock, hasId,
          data, loading, error, isMounted, pollTimer, wsOpen, inflight,
          issued, settled, lastOk, ops, toast, received, pushed, uncaught,
          query, timers, timerSeq, isPolling, pollMs, toastTimer,
          env, basename

vars == <<reservations, filters, filtered,
          calReservations, weekStart, days, itemsByDay, lastNav,
          values, touched, errors, formPc, submitted, clock, hasId,
          data, loading, error, isMounted, pollTimer, wsOpen, inflight,
          issued, settled, lastOk, ops, toast, received, pushed, uncaught,
          query, timers, timerSeq, isPolling, pollMs, toastTimer,
          env, basename>>

listVars == <<reservations, filters, filtered>>

calVars == <<calReservations, weekStart, days, itemsByDay, lastNav>>

formVars == <<values, touched, errors, formPc, submitted, clock, hasId>>

hookVars == <<data, loading, error, isMounted, pollTimer, wsOpen, inflight,
              issued, settled, lastOk, ops, toast, received, pushed, uncaught>>

pollVars == <<query, timers, timerSeq, isPolling, pollMs>>

envVars == <<env, basename>>

(***************************************************************************)
(* Bounds                                                                  *)
(***************************************************************************)
MaxListLen == 2

MaxCalLen == 3

MaxWeeksAway == 1

(***************************************************************************)
(* JavaScript values and coercions                                         *)
(***************************************************************************)
Undefined == [t |-> "undefined"]

Null == [t |-> "null"]

Str(s) == [t |-> "string", v |-> s]

Num(n) == [t |-> "number", v |-> n]

\* ToBoolean: undefined, null, "" and 0 are falsy; everything else is truthy.
Truthy(x) ==
  CASE x.t = "undefined" -> FALSE
    [] x.t = "null" -> FALSE
    [] x.t = "string" -> x.v # ""
    [] x.t = "number" -> x.v # 0
    [] OTHER -> TRUE

\* a || b
Or(a, b) == IF Truthy(a) THEN a ELSE b

\* r.f : reading a property of null or undefined throws a TypeError (see
\* PropThrows); a primitive has none of the reservation fields.
PropThrows(r) == r.t \in {"null", "undefined"}

Get(r, f) == IF r.t = "object" THEN r[f] ELSE Undefined

\* String(x) for the values that reach it: strings and numbers.
Digit == <<"0", "1", "2", "3", "4", "5", "6", "7", "8", "9">>

JsString(x) ==
  CASE x.t = "string" -> x.v
    [] x.t = "number" /\ x.v \in 0..9 -> Digit[x.v + 1]
    [] OTHER -> x.t

CharAt(s, i) == SubSeq(s, i, i)

Upper == <<"A", "B", "C", "D", "E", "F", "G", "H", "I", "J", "K", "L", "M",
           "N", "O", "P", "Q", "R", "S", "T", "U", "V", "W", "X", "Y", "Z">>

Lower == <<"a", "b", "c", "d", "e", "f", "g", "h", "i", "j", "k", "l", "m",
           "n", "o", "p", "q", "r", "s", "t", "u", "v", "w", "x", "y", "z">>

LowerChar(c) ==
  IF \E i \in 1..26 : Upper[i] = c
  THEN Lower[CHOOSE i \in 1..26 : Upper[i] = c]
  ELSE c

RECURSIVE toLowerCase(_)
toLowerCase(s) ==
  IF Len(s) = 0 THEN ""
  ELSE LowerChar(CharAt(s, 1)) \o toLowerCase(SubSeq(s, 2, Len(s)))

RECURSIVE trimStart(_)
trimStart(s) ==
  IF Len(s) > 0 /\ CharAt(s, 1) = " " THEN trimStart(SubSeq(s, 2, Len(s)))
  ELSE s

RECURSIVE trimEnd(_)
trimEnd(s) ==
  IF Len(s) > 0 /\ CharAt(s, Len(s)) = " "
  THEN trimEnd(SubSeq(s, 1, Len(s) - 1))
  ELSE s

trim(s) == trimEnd(trimStart(s))

\* s.includes(sub)
includes(s, sub) ==
  \E i \in 1..(Len(s) - Len(sub) + 1) : SubSeq(s, i, i + Len(sub) - 1) = sub

(***************************************************************************)
(* Date                                                                    *)
(***************************************************************************)
MinutesPerDay == 24 * 60

InvalidDate == [t |-> "date", valid |-> FALSE, time |-> 0]

DateOf(minutes) == [t |-> "date", valid |-> TRUE, time |-> minutes]

\* days since 1970-01-01 of the civil date y-m-d (m in 1..12; d may lie
\* outside the month, as in setDate, and then runs over into the neighbours)
DaysFromCivil(y, m, d) ==
  LET yy == IF m <= 2 THEN y - 1 ELSE y
      era == yy \div 400
      yoe == yy - era * 400
      mp == IF m > 2 THEN m - 3 ELSE m + 9
      doy == (153 * mp + 2) \div 5 + d - 1
      doe == yoe * 365 + yoe \div 4 - yoe \div 100 + doy
  IN  era * 146097 + doe - 719468

CivilFromDays(z) ==
  LET zz == z + 719468
      era == zz \div 146097
      doe == zz - era * 146097
      yoe == (doe - doe \div 1460 + doe \div 36524 - doe \div 146096) \div 365
      doy == doe - (365 * yoe + yoe \div 4 - yoe \div 100)
      mp == (5 * doy + 2) \div 153
      d == doy - (153 * mp + 2) \div 5 + 1
      m == IF mp < 10 THEN mp + 3 ELSE mp - 9
      y == yoe + era * 400 + (IF m <= 2 THEN 1 ELSE 0)
  IN  [y |-> y, m |-> m, d |-> d]

DayNumber(dt) == dt.time \div MinutesPerDay

MinuteOfDay(dt) == dt.time % MinutesPerDay

getFullYear(dt) == CivilFromDays(DayNumber(dt)).y

\* 0 = January
getMonth(dt) == CivilFromDays(DayNumber(dt)).m - 1

getDate(dt) == CivilFromDays(DayNumber(dt)).d

\* 0 = Sunday; 1970-01-01 was a Thursday
getDay(dt) == (DayNumber(dt) + 4) % 7

getHours(dt) == MinuteOfDay(dt) \div 60

getMinutes(dt) == MinuteOfDay(dt) % 60

\* x.setDate(n): same month and time of day, day-of-month n (any integer)
setDate(dt, n) ==
  IF ~dt.valid THEN InvalidDate
  ELSE DateOf(DaysFromCivil(getFullYear(dt), getMonth(dt) + 1, n) * MinutesPerDay
              + MinuteOfDay(dt))

\* x.setHours(0, 0, 0, 0)
setHoursZero(dt) ==
  IF ~dt.valid THEN InvalidDate ELSE DateOf(DayNumber(dt) * MinutesPerDay)

IsDigit(c) == \E i \in 1..10 : Digit[i] = c

DigitVal(c) == (CHOOSE i \in 1..10 : Digit[i] = c) - 1

TwoDigits(s, i) == DigitVal(CharAt(s, i)) * 10 + DigitVal(CharAt(s, i + 1))

IsLeap(y) == (y % 4 = 0 /\ y % 100 # 0) \/ y % 400 = 0

DaysInMonth(y, m) ==
  IF m = 2 THEN (IF IsLeap(y) THEN 29 ELSE 28)
  ELSE IF m \in {4, 6, 9, 11} THEN 30 ELSE 31

\* Date.parse of a string: the date-time form "YYYY-MM-DDTHH:mm" (local time)
\* is an instant; any other text of the input domain is not a date (NaN).
DateParse(s) ==
  IF /\ Len(s) = 16
     /\ \A i \in {1, 2, 3, 4, 6, 7, 9, 10, 12, 13, 15, 16} : IsDigit(CharAt(s, i))
     /\ CharAt(s, 5) = "-" /\ CharAt(s, 8) = "-"
     /\ CharAt(s, 11) = "T" /\ CharAt(s, 14) = ":"
  THEN LET y == TwoDigits(s, 1) * 100 + TwoDigits(s, 3)
           m == TwoDigits(s, 6)
           d == TwoDigits(s, 9)
           hh == TwoDigits(s, 12)
           mi == TwoDigits(s, 15)
       IN  IF m \in 1..12 /\ d \in 1..DaysInMonth(y, m) /\ hh \in 0..23 /\ mi \in 0..59
           THEN DateOf(DaysFromCivil(y, m, d) * MinutesPerDay + hh * 60 + mi)
           ELSE InvalidDate
  ELSE InvalidDate

\* new Date(x): a number is the instant itself, a string is parsed,
\* undefined is the Invalid Date; a Date is copied.
NewDate(x) ==
  CASE x.t = "number" -> DateOf(x.v)
    [] x.t = "string" -> DateParse(x.v)
    [] x.t = "date" -> x
    [] OTHER -> InvalidDate

\* a >= b and a <= b on Dates compare the time values; NaN compares false.
DateGe(a, b) == a.valid /\ b.valid /\ a.time >= b.time

DateLe(a, b) == a.valid /\ b.valid /\ a.time <= b.time

(***************************************************************************)
(* ReservationList: the filter                                             *)
(***************************************************************************)
Arr(items) == [t |-> "array", items |-> items]

\* a reservation object; a field that is not there reads as undefined
Obj(id, guestName, name, phone, status, time, when, datetime) ==
  [t |-> "object", id |-> id, guestName |-> guestName, name |-> name,
   phone |-> phone, status |-> status, time |-> time, when |-> when,
   datetime |-> datetime]

EmptyFilters == [from |-> "", to |-> "", status |-> "", search |-> ""]

\* r.time || r.when || r.datetime || 0
whenRaw(r) ==
  Or(Or(Or(Get(r, "time"), Get(r, "when")), Get(r, "datetime")), Num(0))

fromOkStrict(r, f) ==
  ~Truthy(Str(f.from))
  \/ (LET a == NewDate(whenRaw(r))
          b == NewDate(Str(f.from))
      IN  a.valid /\ b.valid /\ a.time > b.time)

fromOk(r, f) ==
  ~Truthy(Str(f.from)) \/ DateGe(NewDate(whenRaw(r)), NewDate(Str(f.from)))

toOkReversed(r, f) ==
  ~Truthy(Str(f.to)) \/ DateGe(NewDate(whenRaw(r)), NewDate(Str(f.to)))

toOkEpochFallback(r, f) ==
  ~Truthy(Str(f.to))
  \/ (LET a == NewDate(whenRaw(r))
      IN  DateLe(IF a.valid THEN a ELSE DateOf(0), NewDate(Str(f.to))))

toOk(r, f) ==
  ~Truthy(Str(f.to)) \/ DateLe(NewDate(whenRaw(r)), NewDate(Str(f.to)))

statusOkNoGuard(r, f) ==
  toLowerCase(JsString(Or(Get(r, "status"), Str(""))))
    = toLowerCase(JsString(Str(f.status)))

statusOk(r, f) ==
  ~Truthy(Str(f.status))
  \/ toLowerCase(JsString(Or(Get(r, "status"), Str(""))))
       = toLowerCase(JsString(Str(f.status)))

searchOk(r, f) ==
  LET s == toLowerCase(trim(JsString(Or(Str(f.search), Str("")))))
  IN  \/ ~Truthy(Str(s))
      \/ includes(toLowerCase(JsString(Or(Or(Get(r, "guestName"), Get(r, "name")),
                                          Str("")))), s)
      \/ includes(toLowerCase(JsString(Or(Get(r, "phone"), Str("")))), s)

\* the callback of list.filter
keep(r, f) == fromOk(r, f) /\ toOk(r, f) /\ statusOk(r, f) /\ searchOk(r, f)

\* An in-place removal loop that steps over the element following a removed one.
RECURSIVE filterSkipping(_, _, _, _)
filterSkipping(list, i, f, acc) ==
  IF i > Len(list) THEN [threw |-> FALSE, value |-> acc]
  ELSE IF PropThrows(list[i]) THEN [threw |-> TRUE, value |-> <<>>]
  ELSE IF keep(list[i], f) THEN filterSkipping(list, i + 1, f, Append(acc, list[i]))
  ELSE IF i + 1 <= Len(list)
       THEN filterSkipping(list, i + 2, f, Append(acc, list[i + 1]))
       ELSE filterSkipping(list, i + 1, f, acc)

\* list.filter(cb): the elements are visited in order; the first line of the
\* callback reads r.status, which throws on a null or undefined element and
\* ends the evaluation.
RECURSIVE filterFrom(_, _, _, _)
filterFrom(list, i, f, acc) ==
  IF i > Len(list) THEN [threw |-> FALSE, value |-> acc]
  ELSE IF PropThrows(list[i]) THEN [threw |-> TRUE, value |-> <<>>]
  ELSE filterFrom(list, i + 1, f,
                  IF keep(list[i], f) THEN Append(acc, list[i]) ELSE acc)

\* the useMemo of `filtered`
computeFiltered(res, f) ==
  LET list == IF res.t = "array" THEN res.items ELSE <<>>
  IN  filterFrom(list, 1, f, <<>>)

DateA == "2024-01-01T10:00"

DateB == "2024-01-02T10:00"

U == Undefined

ListElements ==
  { Null,
    Num(5),
    Obj(Num(1), Str("Ann"), U, Str("555-0101"), Str("pending"), Str(DateA), U, U),
    Obj(Num(2), U, Str("Bo"), U, Str("Confirmed"), Str(DateB), U, U),
    Obj(Num(3), Str("Dan"), U, Str("0155"), Str("confirmed"), U, U, U),
    Obj(Num(4), Str("Eve"), U, U, Str("confirmed"), Str("tomorrow"), U, U),
    Obj(Num(5), Str("ANNA"), U, U, U, U, Str(DateB), U),
    Obj(Num(6), Str(""), Str("Cy"), Str("555"), Str("CONFIRMED"), Str(""), U, Str(DateA)) }

RECURSIVE SeqsUpTo(_, _)
SeqsUpTo(S, n) ==
  IF n = 0 THEN {<<>>}
  ELSE LET shorter == SeqsUpTo(S, n - 1)
       IN  shorter \cup {Append(q, e) : q \in shorter, e \in S}

ReservationsProps == {Null} \cup {Arr(q) : q \in SeqsUpTo(ListElements, MaxListLen)}

FilterValues ==
  [from |-> {"", DateB, "1969-12-31T23:00", "soon"},
   to |-> {"", DateA, DateB},
   status |-> {"", "confirmed"},
   search |-> {"", "  ", " aN ", "55"}]

FilterNames == {"from", "to", "status", "search"}

ListInit ==
  /\ reservations \in ReservationsProps
  /\ filters = EmptyFilters
  /\ filtered = computeFiltered(reservations, filters)
  /\ calReservations = <<>>
  /\ weekStart = DateOf(0)
  /\ days = <<>>
  /\ itemsByDay = [threw |-> FALSE, map |-> <<>>]
  /\ lastNav = "none"
  /\ values = <<>>
  /\ touched = {}
  /\ errors = <<>>
  /\ formPc = "idle"
  /\ submitted = <<>>
  /\ clock = 0
  /\ hasId = FALSE
  /\ data = [t |-> "array", items |-> <<>>]
  /\ loading = FALSE
  /\ error = Null
  /\ isMounted = FALSE
  /\ pollTimer = Null
  /\ wsOpen = FALSE
  /\ inflight = {}
  /\ issued = 0
  /\ settled = 0
  /\ lastOk = Null
  /\ ops = <<>>
  /\ toast = Null
  /\ received = 0
  /\ pushed = 0
  /\ uncaught = {}
  /\ query = [t |-> "object"]
  /\ timers = {}
  /\ timerSeq = 0
  /\ isPolling = FALSE
  /\ pollMs = 0
  /\ toastTimer = Null
  /\ env = Undefined
  /\ basename = Undefined

\* handleFilterChange of the page, the onFilterChange of the list: the query
\* object handed to setQuery, an empty filter being sent as undefined
filterQuery(f) ==
  [t |-> "object",
   from |-> Or(Str(f.from), Undefined),
   to |-> Or(Str(f.to), Undefined),
   status |-> Or(Str(f.status), Undefined),
   search |-> Or(Str(f.search), Undefined)]

\* handleFilterChange of the list: setFilters(next) with the render that
\* follows, and onFilterChange?.(next), which sets the query of the page
handleFilterChange(name, value) ==
  /\ ~filtered.threw
  /\ filters' = [filters EXCEPT ![name] = value]
  /\ filtered' = computeFiltered(reservations, filters')
  /\ query' = filterQuery(filters')
  /\ UNCHANGED reservations
  /\ UNCHANGED <<timers, timerSeq, isPolling, pollMs>>
  /\ UNCHANGED <<calVars, formVars, hookVars, toastTimer, envVars>>

\* The parent renders the list again with a new `reservations` array (the
\* hook replaced its data): one element more or one element less than before.
receiveReservations(next) ==
  /\ ~filtered.threw
  /\ next \in ReservationsProps
  /\ reservations' = next
  /\ filtered' = computeFiltered(next, filters)
  /\ UNCHANGED filters
  /\ UNCHANGED <<calVars, formVars, hookVars, pollVars, toastTimer, envVars>>

NextProps ==
  IF reservations.t # "array" THEN {Arr(<<>>)}
  ELSE {Arr(Append(reservations.items, e)) : e \in ListElements}
       \cup (IF reservations.items = <<>> THEN {Null}
             ELSE {Arr(SubSeq(reservations.items, 1, Len(reservations.items) - 1))})

ListNext ==
  \/ \E name \in FilterNames : \E value \in FilterValues[name] :
       handleFilterChange(name, value)
  \/ \E next \in NextProps : receiveReservations(next)

(***************************************************************************)
(* ReservationCalendar                                                     *)
(***************************************************************************)
startOfWeekSundayFirst(d) ==
  LET x == NewDate(d)
      day == getDay(x)
      y == setHoursZero(x)
  IN  setDate(y, getDate(y) - day)

startOfWeek(d) ==
  LET x == NewDate(d)
      day == getDay(x)
      diff == (day + 6) % 7
      y == setHoursZero(x)
  IN  setDate(y, getDate(y) - diff)

addDays(d, n) ==
  LET x == NewDate(d)
  IN  setDate(x, getDate(x) + n)

\* the decimal text of a number, as a template literal prints it
RECURSIVE NumText(_)
NumText(n) ==
  IF n < 10 THEN Digit[n + 1] ELSE NumText(n \div 10) \o Digit[(n % 10) + 1]

keyOfDateNoMonth(d) == NumText(getFullYear(d)) \o "-" \o NumText(getDate(d))

keyOfDate(d) ==
  NumText(getFullYear(d)) \o "-" \o NumText(getMonth(d) + 1) \o "-"
    \o NumText(getDate(d))

\* null when the value is not a date
parseDateSafe(s) ==
  LET d == NewDate(s)
  IN  IF ~d.valid THEN Null ELSE d

\* Array.from({ length: 7 }).map((_, i) => addDays(weekStart, i))
computeDays(ws) == [i \in 1..7 |-> addDays(ws, i - 1)]

\* inserts the item before the first element that is later or equal
insertBeforeEqual(sorted, item) ==
  LET before == {j \in 1..Len(sorted) : sorted[j].when.time < item.when.time}
      n == Cardinality(before)
  IN  SubSeq(sorted, 1, n) \o <<item>> \o SubSeq(sorted, n + 1, Len(sorted))

\* inserts the item after every element that is not later than it
insertSorted(sorted, item) ==
  LET before == {j \in 1..Len(sorted) : sorted[j].when.time <= item.when.time}
      n == Cardinality(before)
  IN  SubSeq(sorted, 1, n) \o <<item>> \o SubSeq(sorted, n + 1, Len(sorted))

\* arr.sort((a, b) => a.when.getTime() - b.when.getTime()): ascending and
\* stable (Array.prototype.sort keeps the order of elements that compare equal)
RECURSIVE sortByWhen(_)
sortByWhen(arr) ==
  IF Len(arr) = 0 THEN <<>>
  ELSE insertSorted(sortByWhen(SubSeq(arr, 1, Len(arr) - 1)), arr[Len(arr)])

\* the for loop of itemsByDay: an item {r, when} is pushed to the bucket of
\* its day key when the bucket exists; `src` is the position of r in the
\* reservations array and stands for the identity of the object r.
RECURSIVE fillBuckets(_, _, _)
fillBuckets(list, i, map) ==
  IF i > Len(list) THEN [threw |-> FALSE, map |-> map]
  ELSE IF PropThrows(list[i]) THEN [threw |-> TRUE, map |-> map]
  ELSE LET r == list[i]
           t == parseDateSafe(Or(Or(Get(r, "time"), Get(r, "when")),
                                 Get(r, "datetime")))
       IN  IF t.t = "null" THEN fillBuckets(list, i + 1, map)
           ELSE IF keyOfDate(t) \notin DOMAIN map THEN fillBuckets(list, i + 1, map)
           ELSE fillBuckets(list, i + 1,
                  [map EXCEPT ![keyOfDate(t)] =
                     Append(@, [r |-> r, when |-> t, src |-> i])])

\* the useMemo of itemsByDay
computeItemsByDay(list, ds) ==
  LET empty == [k \in {keyOfDate(ds[i]) : i \in 1..Len(ds)} |-> <<>>]
      filled == fillBuckets(list, 1, empty)
  IN  IF filled.threw THEN [threw |-> TRUE, map |-> empty]
      ELSE [threw |-> FALSE,
            map |-> [k \in DOMAIN filled.map |-> sortByWhen(filled.map[k])]]

positionForTimeUnclamped(d) ==
  LET start == 9 * 60
      end == 22 * 60
      total == end - start
      mins == getHours(d) * 60 + getMinutes(d)
  IN  [num |-> (mins - start) * 100, den |-> total]

\* the percentage pct of `calc(${pct}% - 10px)`, as the fraction num / den
positionForTime(d) ==
  LET start == 9 * 60
      end == 22 * 60
      total == end - start
      mins == getHours(d) * 60 + getMinutes(d)
      lower == IF mins - start > 0 THEN mins - start ELSE 0
      rel == IF lower < total THEN lower ELSE total
  IN  [num |-> rel * 100, den |-> total]

\* days.findIndex((d) => keyOfDate(d) === key), zero-based
dayColumnIndex(ds, day) ==
  (CHOOSE i \in 1..Len(ds) :
     /\ keyOfDate(ds[i]) = keyOfDate(day)
     /\ \A j \in 1..(i - 1) : keyOfDate(ds[j]) # keyOfDate(day)) - 1

\* the buttons of one day of the items layer
dayButtons(ds, map, i) ==
  LET items == IF keyOfDate(ds[i]) \in DOMAIN map THEN map[keyOfDate(ds[i])] ELSE <<>>
  IN  [j \in 1..Len(items) |->
         [r |-> items[j].r, when |-> items[j].when, src |-> items[j].src,
          top |-> positionForTime(items[j].when),
          column |-> dayColumnIndex(ds, ds[i])]]

\* the items layer: days.map((d) => items.map(...)), flattened
RECURSIVE layerFrom(_, _, _)
layerFrom(ds, map, i) ==
  IF i > Len(ds) THEN <<>>
  ELSE dayButtons(ds, map, i) \o layerFrom(ds, map, i + 1)

itemsLayer == IF itemsByDay.threw THEN <<>> ELSE layerFrom(days, itemsByDay.map, 1)

CalElements ==
  { Null,
    Obj(Num(2), Str("Bo"), U, U, U, Str("2024-02-28T23:00"), U, U),
    Obj(Num(3), Str("Cy"), U, U, U, Str("2024-02-28T23:00"), U, U),
    Obj(Num(4), Str("Dan"), U, U, U, U, Str("2024-02-28T12:30"), U),
    Obj(Num(6), U, Str("Flo"), U, U, U, U, Str("2024-03-03T22:00")),
    Obj(Num(7), Str("Gus"), U, U, U, Str("2024-03-04T00:00"), U, U),
    Obj(Num(8), Str("Hal"), U, U, U, Str("2024-01-29T10:00"), U, U),
    Obj(Num(9), Str("Ida"), U, U, U, Str("tbd"), U, U),
    Obj(Num(10), Str("Jo"), U, U, U, U, U, U) }

\* the initialWeekStart prop: not given, or a Date
InitialWeekStarts ==
  { Undefined,
    NewDate(Str("2024-02-26T00:00")),
    NewDate(Str("2024-02-29T17:45")),
    NewDate(Str("2024-03-03T23:59")) }

\* the values new Date() can give
Nows ==
  { NewDate(Str("2024-02-27T08:15")),
    NewDate(Str("2024-03-01T00:00")),
    NewDate(Str("2024-03-10T21:00")) }

BaseMonday == DaysFromCivil(2024, 2, 26)

\* navigation is followed no further than MaxWeeksAway weeks from the base week
InRange(ws) ==
  /\ DayNumber(ws) >= BaseMonday - 7 * MaxWeeksAway
  /\ DayNumber(ws) <= BaseMonday + 7 * MaxWeeksAway

CalInit ==
  /\ calReservations \in SeqsUpTo(CalElements, MaxCalLen)
  /\ weekStart \in {startOfWeek(Or(initialWeekStart, now)) :
                       initialWeekStart \in InitialWeekStarts, now \in Nows}
  /\ days = computeDays(weekStart)
  /\ itemsByDay = computeItemsByDay(calReservations, days)
  /\ lastNav = "init"
  /\ reservations = Null
  /\ filters = EmptyFilters
  /\ filtered = [threw |-> FALSE, value |-> <<>>]
  /\ values = <<>>
  /\ touched = {}
  /\ errors = <<>>
  /\ formPc = "idle"
  /\ submitted = <<>>
  /\ clock = 0
  /\ hasId = FALSE
  /\ data = [t |-> "array", items |-> <<>>]
  /\ loading = FALSE
  /\ error = Null
  /\ isMounted = FALSE
  /\ pollTimer = Null
  /\ wsOpen = FALSE
  /\ inflight = {}
  /\ issued = 0
  /\ settled = 0
  /\ lastOk = Null
  /\ ops = <<>>
  /\ toast = Null
  /\ received = 0
  /\ pushed = 0
  /\ uncaught = {}
  /\ query = [t |-> "object"]
  /\ timers = {}
  /\ timerSeq = 0
  /\ isPolling = FALSE
  /\ pollMs = 0
  /\ toastTimer = Null
  /\ env = Undefined
  /\ basename = Undefined

\* setWeekStart(next) and the render that follows
showWeek(next, nav) ==
  /\ ~itemsByDay.threw
  /\ InRange(next)
  /\ weekStart' = next
  /\ days' = computeDays(next)
  /\ itemsByDay' = computeItemsByDay(calReservations, days')
  /\ lastNav' = nav
  /\ UNCHANGED calReservations
  /\ UNCHANGED <<listVars, formVars, hookVars, pollVars, toastTimer, envVars>>

goPrevWeek == showWeek(addDays(weekStart, -7), "prev")

goNextWeek == showWeek(addDays(weekStart, 7), "next")

goToday == \E now \in Nows : showWeek(startOfWeek(now), "today")

CalNext == goPrevWeek \/ goNextWeek \/ goToday

SpecList == ListInit /\ [][ListNext]_vars

SpecCalendar == CalInit /\ [][CalNext]_vars

(***************************************************************************)
(* Properties of the filter                                                *)
(***************************************************************************)
InputList == IF reservations.t = "array" THEN reservations.items ELSE <<>>

\* every element of the list is a reservation record (not null or undefined)
AllRecords == \A i \in 1..Len(InputList) : InputList[i].t \notin {"null", "undefined"}

FirstTruthy(r) ==
  IF Truthy(Get(r, "time")) THEN Get(r, "time")
  ELSE IF Truthy(Get(r, "when")) THEN Get(r, "when")
  ELSE IF Truthy(Get(r, "datetime")) THEN Get(r, "datetime")
  ELSE Undefined

\* the instant a record is compared by
RecordInstant(r) ==
  IF FirstTruthy(r).t = "undefined" THEN DateOf(0) ELSE NewDate(FirstTruthy(r))

TextOf(x) == IF x.t = "string" THEN x.v ELSE ""

GuestOf(r) ==
  IF TextOf(Get(r, "guestName")) # "" THEN TextOf(Get(r, "guestName"))
  ELSE TextOf(Get(r, "name"))

FromClause(r) ==
  filters.from = "" \/ DateGe(RecordInstant(r), DateParse(filters.from))

ToClause(r) ==
  filters.to = "" \/ DateLe(RecordInstant(r), DateParse(filters.to))

StatusClause(r) ==
  filters.status = ""
  \/ toLowerCase(TextOf(Get(r, "status"))) = toLowerCase(filters.status)

SearchClause(r) ==
  LET needle == toLowerCase(trim(filters.search))
  IN  \/ needle = ""
      \/ includes(toLowerCase(GuestOf(r)), needle)
      \/ includes(toLowerCase(TextOf(Get(r, "phone"))), needle)

Satisfies(r) == FromClause(r) /\ ToClause(r) /\ StatusClause(r) /\ SearchClause(r)

\* C1: the filter returns exactly the order-preserving subsequence of the
\* reservation list made of the records that satisfy the from, to, status and
\* search clauses together.
C1_FilterIsSubsequence ==
  AllRecords =>
    filtered = [threw |-> FALSE, value |-> SelectSeq(InputList, Satisfies)]

\* all four clauses are active, one record is kept and one is dropped
C1_Witness ==
  /\ AllRecords
  /\ filters.from # "" /\ filters.to # "" /\ filters.status # ""
  /\ trim(filters.search) # ""
  /\ Len(InputList) = 2
  /\ Len(filtered.value) = 1

\* C2: filtering is idempotent: filtering the filtered list again with the
\* same spec gives the same sequence.
C2_FilterIdempotent ==
  AllRecords => computeFiltered(Arr(filtered.value), filters) = filtered

\* a filter is active and it removed the first of two records
C2_Witness ==
  /\ AllRecords
  /\ filters # EmptyFilters
  /\ Len(InputList) = 2
  /\ filtered.value = <<InputList[2]>>
  /\ computeFiltered(Arr(filtered.value), filters).value = <<InputList[2]>>

\* C3: with the empty filter spec the filter returns the whole list, in order.
C3_EmptySpecIdentity ==
  (AllRecords /\ filters = EmptyFilters) =>
    filtered = [threw |-> FALSE, value |-> InputList]

\* the empty spec applied to two different records
C3_Witness ==
  /\ filters = EmptyFilters
  /\ Len(InputList) = 2
  /\ InputList[1] # InputList[2]
  /\ filtered.value = InputList

\* C4: the filter never throws, whatever the list holds (null and non-object
\* elements included) and whatever the filter spec is.
C4_NeverThrows == ~filtered.threw

NoInstant(r) == FirstTruthy(r).t = "undefined"

Unparseable(r) == FirstTruthy(r).t # "undefined" /\ ~NewDate(FirstTruthy(r)).valid

\* C5 as stated: a record with no parseable instant (none present, or present
\* but unparseable) is compared in the from and to bounds as epoch zero.
C5_NoInstantIsEpochZero ==
  \A i \in 1..Len(InputList) :
    LET r == InputList[i]
    IN  (~PropThrows(r) /\ (NoInstant(r) \/ Unparseable(r))) =>
          /\ filters.from # "" =>
               (fromOk(r, filters) <=> DateGe(DateOf(0), DateParse(filters.from)))
          /\ filters.to # "" =>
               (toOk(r, filters) <=> DateLe(DateOf(0), DateParse(filters.to)))

\* C5 amended: a record with none of time/when/datetime present is compared as
\* epoch zero in both bounds; a record whose value is present but unparseable
\* fails every active from bound and every active to bound.
C5_MissingIsEpochZeroUnparseableFails ==
  \A i \in 1..Len(InputList) :
    LET r == InputList[i]
    IN  /\ (~PropThrows(r) /\ NoInstant(r)) =>
             /\ filters.from # "" =>
                  (fromOk(r, filters) <=> DateGe(DateOf(0), DateParse(filters.from)))
             /\ filters.to # "" =>
                  (toOk(r, filters) <=> DateLe(DateOf(0), DateParse(filters.to)))
        /\ (~PropThrows(r) /\ Unparseable(r)) =>
             /\ filters.from # "" => ~fromOk(r, filters)
             /\ filters.to # "" => ~toOk(r, filters)
        /\ (AllRecords /\ ~PropThrows(r) /\ Unparseable(r)
              /\ (filters.from # "" \/ filters.to # "")) =>
             \A j \in 1..Len(filtered.value) : filtered.value[j] # r

\* a record without an instant passes an active to bound and is kept, a record
\* with an unparseable one is dropped by it
C5_Witness ==
  /\ ~filtered.threw
  /\ filters.to # "" /\ filters.from = "" /\ filters.status = "" /\ filters.search = ""
  /\ Len(InputList) = 2
  /\ NoInstant(InputList[1]) /\ ~PropThrows(InputList[1])
  /\ InputList[2].t = "object" /\ Unparseable(InputList[2])
  /\ filtered.value = <<InputList[1]>>

InvertedRange ==
  /\ filters.from # "" /\ filters.to # ""
  /\ DateParse(filters.from).valid /\ DateParse(filters.to).valid
  /\ DateParse(filters.from).time > DateParse(filters.to).time

\* C6: an inverted date range (from later than to) yields zero matches for
\* every reservation list, and no error.
C6_InvertedRangeEmpty ==
  (AllRecords /\ InvertedRange) => filtered = [threw |-> FALSE, value |-> <<>>]

\* an inverted range over two records that each pass one of the two bounds
C6_Witness ==
  /\ InvertedRange
  /\ AllRecords
  /\ Len(InputList) = 2
  /\ \E i \in 1..2 : DateGe(RecordInstant(InputList[i]), DateParse(filters.from))
  /\ \E i \in 1..2 : DateLe(RecordInstant(InputList[i]), DateParse(filters.to))
  /\ filtered.value = <<>>

(***************************************************************************)
(* Properties of the calendar                                              *)
(***************************************************************************)
CalAllRecords ==
  \A n \in 1..Len(calReservations) :
    calReservations[n].t \notin {"null", "undefined"}

\* the instant of a record: its first present field, parsed
RecordWhen(r) ==
  IF FirstTruthy(r).t = "undefined" THEN InvalidDate ELSE NewDate(FirstTruthy(r))

InWindow(dt) ==
  /\ dt.valid
  /\ DayNumber(dt) >= DayNumber(weekStart)
  /\ DayNumber(dt) <= DayNumber(weekStart) + 6

\* the places <<key, position>> where the record at index n of the list sits
Places(n) ==
  {p \in (DOMAIN itemsByDay.map) \X (1..Len(calReservations)) :
     p[2] <= Len(itemsByDay.map[p[1]]) /\ itemsByDay.map[p[1]][p[2]].src = n}

BucketItems ==
  {p \in (DOMAIN itemsByDay.map) \X (1..Len(calReservations)) :
     p[2] <= Len(itemsByDay.map[p[1]])}

\* C7: the 7 day keys are distinct; a record with a valid instant on one of
\* the 7 days of the window is in exactly one bucket, the one of its date,
\* exactly once; a record with a missing or unparseable instant, or a date
\* outside the window, is in no bucket.
C7_BucketCompleteness ==
  (CalAllRecords /\ ~itemsByDay.threw) =>
    LET keys == [i \in 1..7 |-> keyOfDate(days[i])]
    IN  /\ \A i \in 1..7 : \A j \in 1..7 : i # j => keys[i] # keys[j]
        /\ DOMAIN itemsByDay.map = {keys[i] : i \in 1..7}
        /\ \A n \in 1..Len(calReservations) :
             LET inst == RecordWhen(calReservations[n])
                 places == Places(n)
             IN  IF InWindow(inst)
                 THEN /\ Cardinality(places) = 1
                      /\ \A q \in places :
                           /\ q[1] = keys[DayNumber(inst) - DayNumber(weekStart) + 1]
                           /\ itemsByDay.map[q[1]][q[2]].r = calReservations[n]
                           /\ itemsByDay.map[q[1]][q[2]].when = inst
                 ELSE places = {}

\* of three records one lies in the window, one has a valid instant outside
\* it and one has no valid instant: only the first is in a bucket
C7_Witness ==
  /\ CalAllRecords
  /\ Len(calReservations) = 3
  /\ \E a \in 1..3 : InWindow(RecordWhen(calReservations[a]))
  /\ \E b \in 1..3 : /\ RecordWhen(calReservations[b]).valid
                     /\ ~InWindow(RecordWhen(calReservations[b]))
  /\ \E c \in 1..3 : ~RecordWhen(calReservations[c]).valid
  /\ Cardinality(BucketItems) = 1

\* C8: within every bucket the instants are non-decreasing, and items with the
\* same instant keep the order they had in the reservation list.
C8_BucketOrdering ==
  \A k \in DOMAIN itemsByDay.map :
    \A i \in 1..Len(itemsByDay.map[k]) : \A j \in 1..Len(itemsByDay.map[k]) :
      i < j =>
        /\ itemsByDay.map[k][i].when.time <= itemsByDay.map[k][j].when.time
        /\ itemsByDay.map[k][i].when.time = itemsByDay.map[k][j].when.time
             => itemsByDay.map[k][i].src < itemsByDay.map[k][j].src

\* a bucket of three: the record given second is the earliest, the first and
\* the third have the same instant
C8_Witness ==
  \E k \in DOMAIN itemsByDay.map :
    /\ Len(itemsByDay.map[k]) = 3
    /\ itemsByDay.map[k][1].src = 2
    /\ itemsByDay.map[k][2].src = 1
    /\ itemsByDay.map[k][3].src = 3
    /\ itemsByDay.map[k][2].when.time = itemsByDay.map[k][3].when.time
    /\ itemsByDay.map[k][2].r # itemsByDay.map[k][3].r

\* the position the claim gives to minute-of-day m, as a fraction of 100%:
\* 0% up to 09:00, 100% from 22:00, linear in between
ExpectedTop(m) ==
  IF m <= 9 * 60 THEN [num |-> 0, den |-> 1]
  ELSE IF m >= 22 * 60 THEN [num |-> 100, den |-> 1]
  ELSE [num |-> (m - 9 * 60) * 100, den |-> (22 - 9) * 60]

SameFraction(a, b) == a.den > 0 /\ b.den > 0 /\ a.num * b.den = b.num * a.den

FractionLe(a, b) == a.num * b.den <= b.num * a.den

\* C9: the vertical position of an item is the linear interpolation of its
\* time of day between 09:00 (0%) and 22:00 (100%), clamped to [0%, 100%],
\* non-decreasing in the time of day; every item of a bucket is rendered, also
\* when its time lies outside the visible hours.
C9_PositionClamped ==
  LET layer == itemsLayer
  IN  /\ \A b \in 1..Len(layer) :
           /\ SameFraction(layer[b].top, ExpectedTop(layer[b].when.time % (24 * 60)))
           /\ layer[b].top.num >= 0
           /\ layer[b].top.num <= 100 * layer[b].top.den
      /\ \A a \in 1..Len(layer) : \A b \in 1..Len(layer) :
           (layer[a].when.time % (24 * 60) <= layer[b].when.time % (24 * 60))
             => FractionLe(layer[a].top, layer[b].top)
      /\ ~itemsByDay.threw =>
           \A q \in BucketItems :
             \E b \in 1..Len(layer) :
               /\ layer[b].src = itemsByDay.map[q[1]][q[2]].src
               /\ layer[b].column \in 0..6
               /\ DayNumber(layer[b].when) = DayNumber(weekStart) + layer[b].column

\* an item at 12:30 is rendered inside the grid and one at 23:00 at 100%
C9_Witness ==
  /\ Len(calReservations) = 2
  /\ LET layer == itemsLayer
     IN  /\ Len(layer) = 2
         /\ layer[1].when.time % (24 * 60) = 12 * 60 + 30
         /\ layer[1].top.num > 0
         /\ layer[1].top.num < 100 * layer[1].top.den
         /\ layer[2].when.time % (24 * 60) = 23 * 60
         /\ layer[2].top.num = 100 * layer[2].top.den

WeekWindowOk ==
  /\ weekStart.valid
  /\ (DayNumber(weekStart) + 4) % 7 = 1
  /\ weekStart.time % (24 * 60) = 0
  /\ Len(days) = 7
  /\ \A i \in 1..7 :
       /\ days[i].valid
       /\ days[i].time = weekStart.time + (i - 1) * 24 * 60
       /\ (DayNumber(days[i]) + 4) % 7 = i % 7

NavMovesByAWeek ==
  /\ lastNav' = "prev" => weekStart'.time = weekStart.time - 7 * 24 * 60
  /\ lastNav' = "next" => weekStart'.time = weekStart.time + 7 * 24 * 60

\* C10: after initialisation and after any sequence of prev / next / today
\* navigations weekStart is a Monday at local midnight and days is the 7
\* consecutive dates from it, Monday to Sunday; prev and next move the window
\* by exactly 7 days.
C10_WeekWindow == [](WeekWindowOk) /\ [][NavMovesByAWeek]_vars

\* the week before the base week, reached by prev: it starts in one month
\* and its successor week ends in the next
C10_Witness ==
  /\ lastNav = "prev"
  /\ DayNumber(weekStart) = BaseMonday - 7
  /\ getDate(days[7]) = 25

(***************************************************************************)
(* ReservationForm                                                         *)
(*                                                                         *)
(* A number that is not an integer is [t |-> "number", v, tenths] (v the   *)
(* whole part, one decimal), and NaN is [t |-> "number", v |-> 0, nan].    *)
(* The clock counts minutes since the epoch, as the Date does.  The error  *)
(* mapping is a function from the keys that carry a message to the         *)
(* messages, and `touched` is the set of the keys that are true in it.     *)
(***************************************************************************)
NaN == [t |-> "number", v |-> 0, nan |-> TRUE]

Dec(whole, tenths) == [t |-> "number", v |-> whole, tenths |-> tenths]

\* Number.isFinite(n) for a number n (the model has no infinities)
isFinite(n) == "nan" \notin DOMAIN n

\* ten times the value of a finite number
Times10(n) == n.v * 10 + (IF "tenths" \in DOMAIN n THEN n.tenths ELSE 0)

AllDigits(s) == Len(s) > 0 /\ \A i \in 1..Len(s) : IsDigit(CharAt(s, i))

RECURSIVE DigitsValue(_)
DigitsValue(s) ==
  IF Len(s) = 0 THEN 0
  ELSE DigitsValue(SubSeq(s, 1, Len(s) - 1)) * 10 + DigitVal(CharAt(s, Len(s)))

\* Number(text): blank text is 0, decimal digits are an integer, digits with
\* one decimal are a fraction, any other text of the input domain is NaN.
StringToNumber(s) ==
  LET x == trim(s)
  IN  IF x = "" THEN Num(0)
      ELSE IF AllDigits(x) THEN Num(DigitsValue(x))
      ELSE IF /\ Len(x) >= 3
              /\ CharAt(x, Len(x) - 1) = "."
              /\ AllDigits(SubSeq(x, 1, Len(x) - 2))
              /\ IsDigit(CharAt(x, Len(x)))
           THEN (IF DigitVal(CharAt(x, Len(x))) = 0
                 THEN Num(DigitsValue(SubSeq(x, 1, Len(x) - 2)))
                 ELSE Dec(DigitsValue(SubSeq(x, 1, Len(x) - 2)),
                          DigitVal(CharAt(x, Len(x)))))
      ELSE NaN

\* Number(x)
Number(x) ==
  CASE x.t = "number" -> x
    [] x.t = "string" -> StringToNumber(x.v)
    [] x.t = "null" -> Num(0)
    [] OTHER -> NaN

RECURSIVE DigitPrefix(_)
DigitPrefix(s) ==
  IF Len(s) > 0 /\ IsDigit(CharAt(s, 1))
  THEN CharAt(s, 1) \o DigitPrefix(SubSeq(s, 2, Len(s)))
  ELSE ""

\* parseInt(text, 10): the leading decimal digits after leading blanks and an
\* optional minus sign; NaN when there are none.
parseInt(s) ==
  LET x == trimStart(s)
      neg == Len(x) > 0 /\ CharAt(x, 1) = "-"
      body == IF neg THEN SubSeq(x, 2, Len(x)) ELSE x
      digits == DigitPrefix(body)
  IN  IF digits = "" THEN NaN
      ELSE Num((IF neg THEN -1 ELSE 1) * DigitsValue(digits))

nameMin == 2

nameMax == 80

sizeMin == 1

sizeMax == 20

notesMax == 240

\* /^[+()\-.\s\d]{7,20}$/.test(s)
phonePattern(s) ==
  /\ Len(s) >= 7
  /\ Len(s) <= 20
  /\ \A i \in 1..Len(s) :
       \/ IsDigit(CharAt(s, i))
       \/ CharAt(s, i) \in {"+", "(", ")", "-", ".", " "}

\* d.getTime() >= Date.now() - 60_000, false for the Invalid Date
isFutureOrNow(dtLocalStr, now) ==
  LET d == NewDate(Str(dtLocalStr))
  IN  IF ~d.valid THEN FALSE ELSE d.time >= now - 1

pad(n) == IF n < 10 THEN "0" \o NumText(n) ELSE NumText(n)

\* the local date-time text of the next quarter of an hour
defaultDateTimeLocal(now) ==
  LET rounded == DateOf(((now + 14) \div 15) * 15)
  IN  NumText(getFullYear(rounded)) \o "-" \o pad(getMonth(rounded) + 1)
        \o "-" \o pad(getDate(rounded)) \o "T" \o pad(getHours(rounded))
        \o ":" \o pad(getMinutes(rounded))

\* Each rule of validate yields the message it assigns, or none.
nameErrorUntrimmed(draft) ==
  LET name == JsString(Or(draft.guestName, Str("")))
  IN  IF name = "" THEN <<"Guest name is required">>
      ELSE IF Len(name) < nameMin
           THEN <<"Name must be at least " \o NumText(nameMin) \o " characters">>
      ELSE IF Len(name) > nameMax
           THEN <<"Name cannot exceed " \o NumText(nameMax) \o " characters">>
      ELSE <<>>

nameError(draft) ==
  LET name == trim(JsString(Or(draft.guestName, Str(""))))
  IN  IF name = "" THEN <<"Guest name is required">>
      ELSE IF Len(name) < nameMin
           THEN <<"Name must be at least " \o NumText(nameMin) \o " characters">>
      ELSE IF Len(name) > nameMax
           THEN <<"Name cannot exceed " \o NumText(nameMax) \o " characters">>
      ELSE <<>>

phoneError(draft) ==
  LET phone == trim(JsString(Or(draft.phone, Str(""))))
  IN  IF phone # "" /\ ~phonePattern(phone)
      THEN <<"Enter a valid phone number">>
      ELSE <<>>

sizeError(draft) ==
  LET size == Number(draft.size)
  IN  IF ~isFinite(size) \/ Times10(size) < sizeMin * 10
      THEN <<"Party size must be at least " \o NumText(sizeMin)>>
      ELSE IF Times10(size) > sizeMax * 10
           THEN <<"Party size cannot exceed " \o NumText(sizeMax)>>
      ELSE <<>>

timeError(draft, now) ==
  LET time == JsString(Or(draft.time, Str("")))
  IN  IF time = "" THEN <<"Reservation date/time is required">>
      ELSE IF ~isFutureOrNow(time, now) THEN <<"Time must be in the future">>
      ELSE <<>>

notesError(draft) ==
  LET notes == JsString(Or(draft.notes, Str("")))
  IN  IF Len(notes) > notesMax
      THEN <<"Notes cannot exceed " \o NumText(notesMax) \o " characters">>
      ELSE <<>>

FieldNames == {"guestName", "phone", "size", "time", "notes"}

NoErrors == [k \in {} |-> ""]

\* the mapping e that holds the messages assigned
errorMapping(msgs) ==
  [k \in {f \in FieldNames : msgs[f] # <<>>} |-> msgs[k][1]]

\* a validator that stops at the first field in error
validateFirstOnly(draft, now) ==
  LET n == nameError(draft)
      p == IF n # <<>> THEN <<>> ELSE phoneError(draft)
      s == IF n # <<>> \/ p # <<>> THEN <<>> ELSE sizeError(draft)
      t == IF n # <<>> \/ p # <<>> \/ s # <<>> THEN <<>>
           ELSE timeError(draft, now)
      o == IF n # <<>> \/ p # <<>> \/ s # <<>> \/ t # <<>> THEN <<>>
           ELSE notesError(draft)
  IN  errorMapping([guestName |-> n, phone |-> p, size |-> s, time |-> t,
                    notes |-> o])

validate(draft, now) ==
  errorMapping([guestName |-> nameError(draft),
                phone |-> phoneError(draft),
                size |-> sizeError(draft),
                time |-> timeError(draft, now),
                notes |-> notesError(draft)])

\* d.toISOString(): the UTC date-time text with seconds and milliseconds
toISOString(d) ==
  NumText(getFullYear(d)) \o "-" \o pad(getMonth(d) + 1) \o "-"
    \o pad(getDate(d)) \o "T" \o pad(getHours(d)) \o ":" \o pad(getMinutes(d))
    \o ":00.000Z"

\* s.trim() || undefined
trimOrUndefined(x) == Or(Str(trim(x.v)), Undefined)

\* a payload that passes the entered texts on as they are
payloadRaw(v) ==
  [guestName |-> v.guestName,
   phone |-> Or(v.phone, Undefined),
   size |-> Number(v.size),
   time |-> v.time,
   notes |-> Or(v.notes, Undefined)]

buildPayload(v) ==
  [guestName |-> Str(trim(v.guestName.v)),
   phone |-> trimOrUndefined(v.phone),
   size |-> Number(v.size),
   time |-> Str(toISOString(NewDate(v.time))),
   notes |-> trimOrUndefined(v.notes)]

\* the state of a form constructed with `initialValues` at time `now`
initialState(initialValues, now) ==
  [guestName |-> Or(Get(initialValues, "guestName"), Str("")),
   phone |-> Or(Get(initialValues, "phone"), Str("")),
   size |-> Or(Get(initialValues, "size"), Num(2)),
   time |-> Or(Get(initialValues, "time"), Str(defaultDateTimeLocal(now))),
   notes |-> Or(Get(initialValues, "notes"), Str(""))]

\* the values of a cleared create form
clearedValues(now) ==
  [guestName |-> Str(""), phone |-> Str(""), size |-> Num(2),
   time |-> Str(defaultDateTimeLocal(now)), notes |-> Str("")]

formErrorMessage == "Unable to submit reservation right now. Please try again."

\* { ...prev, _form: message }
withFormError(prev) ==
  [k \in DOMAIN prev \cup {"_form"} |->
     IF k = "_form" THEN formErrorMessage ELSE prev[k]]

\* the catch branch of a form that also clears itself
afterRejectionClearing(v, e, now) ==
  [values |-> clearedValues(now), errors |-> withFormError(NoErrors)]

\* the catch branch of handleSubmit
afterRejection(v, e, now) == [values |-> v, errors |-> withFormError(e)]

\* bounds of the form runs
MaxSubmits == 1

MaxTicks == 1

FormNow == DateParse("2024-03-01T10:00").time

\* formPc is "awaiting" while handleSubmit waits for onSubmit, and tells how
\* the last submission ended ("resolved", "rejected") once it has.
\* onChange of the input `name` with the text `value`
onChange(name, value) ==
  /\ values' = [values EXCEPT
                  ![name] = IF name = "size" THEN parseInt(value) ELSE Str(value)]
  /\ errors' = IF name \in touched THEN validate(values', clock) ELSE errors
  /\ UNCHANGED <<touched, formPc, submitted, clock, hasId>>
  /\ UNCHANGED <<listVars, calVars, hookVars, pollVars, toastTimer, envVars>>

onBlur(name) ==
  /\ touched' = touched \cup {name}
  /\ errors' = validate(values, clock)
  /\ UNCHANGED <<values, formPc, submitted, clock, hasId>>
  /\ UNCHANGED <<listVars, calVars, hookVars, pollVars, toastTimer, envVars>>

\* handleSubmit up to `await onSubmit?.(payload)`; the submit button is
\* disabled while the parent's submission is in progress
handleSubmit ==
  /\ formPc # "awaiting"
  /\ Len(submitted) < MaxSubmits
  /\ LET eNow == validate(values, clock)
     IN  /\ errors' = eNow
         /\ touched' = FieldNames
         /\ IF DOMAIN eNow # {}
            THEN UNCHANGED <<formPc, submitted>>
            ELSE /\ submitted' = Append(submitted, buildPayload(values))
                 /\ formPc' = "awaiting"
  /\ UNCHANGED <<values, clock, hasId>>
  /\ UNCHANGED <<listVars, calVars, hookVars, pollVars, toastTimer, envVars>>

\* onSubmit's promise resolves: a create form is cleared
onSubmitResolved ==
  /\ formPc = "awaiting"
  /\ formPc' = "resolved"
  /\ IF ~hasId
     THEN /\ values' = clearedValues(clock)
          /\ touched' = {}
          /\ errors' = NoErrors
     ELSE UNCHANGED <<values, touched, errors>>
  /\ UNCHANGED <<submitted, clock, hasId>>
  /\ UNCHANGED <<listVars, calVars, hookVars, pollVars, toastTimer, envVars>>

\* onSubmit's promise rejects (handleCreate passes the rejection of create on)
onSubmitRejected ==
  /\ formPc = "awaiting"
  /\ formPc' = "rejected"
  /\ LET after == afterRejection(values, errors, clock)
     IN  /\ values' = after.values
         /\ errors' = after.errors
  /\ UNCHANGED <<touched, submitted, clock, hasId>>
  /\ UNCHANGED <<listVars, calVars, hookVars, pollVars, toastTimer, envVars>>

\* a minute passes
Tick ==
  /\ clock < FormNow + MaxTicks
  /\ clock' = clock + 1
  /\ UNCHANGED <<values, touched, errors, formPc, submitted, hasId>>
  /\ UNCHANGED <<listVars, calVars, hookVars, pollVars, toastTimer, envVars>>

FormObj(id, guestName, phone, size, time, notes) ==
  [t |-> "object", id |-> id, guestName |-> guestName, phone |-> phone,
   size |-> size, time |-> time, notes |-> notes]

RECURSIVE Repeat(_, _)
Repeat(s, n) == IF n = 0 THEN "" ELSE s \o Repeat(s, n - 1)

Name80 == Repeat("abcdefghij", 8)

\* the field values a submit can meet: what construction from initialValues
\* and onChange can leave in the form
DraftValues ==
  [guestName |-> {Str(""), Str("  "), Str("A"), Str(" A "), Str("Al"),
                  Str(" " \o Name80 \o " "), Str(Name80 \o "k")},
   phone |-> {Str(""), Str("abc"), Str(" 555-0101 "), Str("555-01"),
              Str("+1 (555) 123-4567"), Str("123456789012345678901")},
   size |-> {Num(0), Num(1), Num(20), Num(21), Dec(2, 5), NaN, Str("5"),
             Str("abc"), Num(-1)},
   time |-> {Str(""), Str("soon"), Str("2024-03-01T09:58"),
             Str("2024-03-01T09:59"), Str("2024-03-01T10:15")},
   notes |-> {Str(""), Str(" hi "), Str(Repeat(Name80, 3)),
              Str(Repeat(Name80, 3) \o "k")}]

Drafts ==
  [guestName : DraftValues.guestName, phone : DraftValues.phone,
   size : DraftValues.size, time : DraftValues.time, notes : DraftValues.notes]

ValidateInit ==
  /\ values \in Drafts
  /\ touched = {}
  /\ errors = NoErrors
  /\ formPc = "idle"
  /\ submitted = <<>>
  /\ clock = FormNow
  /\ hasId \in BOOLEAN
  /\ reservations = Null
  /\ filters = EmptyFilters
  /\ filtered = [threw |-> FALSE, value |-> <<>>]
  /\ calReservations = <<>>
  /\ weekStart = DateOf(0)
  /\ days = <<>>
  /\ itemsByDay = [threw |-> FALSE, map |-> <<>>]
  /\ lastNav = "none"
  /\ data = [t |-> "array", items |-> <<>>]
  /\ loading = FALSE
  /\ error = Null
  /\ isMounted = FALSE
  /\ pollTimer = Null
  /\ wsOpen = FALSE
  /\ inflight = {}
  /\ issued = 0
  /\ settled = 0
  /\ lastOk = Null
  /\ ops = <<>>
  /\ toast = Null
  /\ received = 0
  /\ pushed = 0
  /\ uncaught = {}
  /\ query = [t |-> "object"]
  /\ timers = {}
  /\ timerSeq = 0
  /\ isPolling = FALSE
  /\ pollMs = 0
  /\ toastTimer = Null
  /\ env = Undefined
  /\ basename = Undefined

ValidateNext == handleSubmit

InitialValuesProps ==
  {FormObj(U, U, U, U, U, U),
   FormObj(Num(7), Str(" Al "), U, Dec(2, 5), Str("2024-03-01T10:15"), U)}

\* the texts typed into the inputs
FormInputs ==
  [guestName |-> {" Al "},
   phone |-> {"", "abc"},
   size |-> {"2.5"},
   time |-> {"2024-03-01T09:58"},
   notes |-> {" hi "}]

FormInit ==
  /\ \E initialValues \in InitialValuesProps :
       /\ values = initialState(initialValues, FormNow)
       /\ hasId = Truthy(Get(initialValues, "id"))
  /\ touched = {}
  /\ errors = NoErrors
  /\ formPc = "idle"
  /\ submitted = <<>>
  /\ clock = FormNow
  /\ reservations = Null
  /\ filters = EmptyFilters
  /\ filtered = [threw |-> FALSE, value |-> <<>>]
  /\ calReservations = <<>>
  /\ weekStart = DateOf(0)
  /\ days = <<>>
  /\ itemsByDay = [threw |-> FALSE, map |-> <<>>]
  /\ lastNav = "none"
  /\ data = [t |-> "array", items |-> <<>>]
  /\ loading = FALSE
  /\ error = Null
  /\ isMounted = FALSE
  /\ pollTimer = Null
  /\ wsOpen = FALSE
  /\ inflight = {}
  /\ issued = 0
  /\ settled = 0
  /\ lastOk = Null
  /\ ops = <<>>
  /\ toast = Null
  /\ received = 0
  /\ pushed = 0
  /\ uncaught = {}
  /\ query = [t |-> "object"]
  /\ timers = {}
  /\ timerSeq = 0
  /\ isPolling = FALSE
  /\ pollMs = 0
  /\ toastTimer = Null
  /\ env = Undefined
  /\ basename = Undefined

FormNext ==
  \/ \E name \in FieldNames : \E value \in FormInputs[name] : onChange(name, value)
  \/ \E name \in FieldNames : onBlur(name)
  \/ handleSubmit
  \/ onSubmitResolved
  \/ onSubmitRejected
  \/ Tick

SpecValidate == ValidateInit /\ [][ValidateNext]_vars

SpecForm == FormInit /\ [][FormNext]_vars

(***************************************************************************)
(* Properties of the form                                                  *)
(***************************************************************************)
\* handleSubmit has validated the values shown
Validated == touched = FieldNames

\* the party size as a number is an integer of the allowed range
IntegerInRange(x) ==
  LET n == Number(x)
  IN  isFinite(n) /\ "tenths" \notin DOMAIN n /\ n.v >= 1 /\ n.v <= 20

\* C11: the validator reports a party-size error exactly when the party size
\* is not a finite integer in [1,20] (so also for a fraction such as 2.5).
C11_SizeErrorIffNotIntegerInRange ==
  Validated => (("size" \in DOMAIN errors) <=> ~IntegerInRange(values.size))

\* the positions of s that hold no blank
NonBlank(s) == {i \in 1..Len(s) : CharAt(s, i) # " "}

Least(S) == CHOOSE i \in S : \A j \in S : i <= j

Greatest(S) == CHOOSE i \in S : \A j \in S : i >= j

\* the text between the first and the last non-blank character
CoreOf(s) ==
  IF NonBlank(s) = {} THEN ""
  ELSE SubSeq(s, Least(NonBlank(s)), Greatest(NonBlank(s)))

\* C12: the validator reports a guestName error exactly when the length of
\* the trimmed guest name lies outside [2,80].
C12_NameErrorIffTrimmedLengthOutside ==
  Validated =>
    (("guestName" \in DOMAIN errors)
       <=> ~(Len(CoreOf(values.guestName.v)) \in 2..80))

C12_Witness ==
  /\ Validated
  /\ values.guestName = Str(" " \o Name80 \o " ")
  /\ "guestName" \notin DOMAIN errors

\* C13: the verdict of validate for a field depends on that field's value
\* only (replacing any other field leaves it as it is), and a draft whose
\* only invalid field is the phone "abc" yields the single key phone; the
\* result is a mapping from field names to messages.
C13_RulesIndependent ==
  Validated =>
    /\ \A f \in FieldNames : \A g \in FieldNames \ {f} :
         \A v \in DraftValues[g] :
           (f \in DOMAIN validate([values EXCEPT ![g] = v], clock))
             <=> (f \in DOMAIN errors)
    /\ (/\ values.phone = Str("abc")
        /\ validate([values EXCEPT !.phone = Str("")], clock) = NoErrors)
         => DOMAIN errors = {"phone"}
    /\ DOMAIN errors \subseteq FieldNames
    /\ \A k \in DOMAIN errors : Len(errors[k]) > 0

C13_Witness ==
  /\ Validated
  /\ values.phone = Str("abc")
  /\ DOMAIN errors = {"phone"}

\* the instant an ISO text "YYYY-MM-DDTHH:mm:00.000Z" names
IsoInstant(s) ==
  IF Len(s) = 24 /\ SubSeq(s, 17, 24) = ":00.000Z"
  THEN DateParse(SubSeq(s, 1, 16))
  ELSE InvalidDate

\* p is the trimmed text of s, or absent when that is empty
OptionalTrimmed(p, s) ==
  IF CoreOf(s) = "" THEN p = Undefined ELSE p = Str(CoreOf(s))

\* C14: a payload is handed to onSubmit only when validate(values) is empty,
\* and it is normalised: guestName trimmed with length in [2,80], phone and
\* notes trimmed or absent, size a number in [1,20], time the ISO/UTC text
\* of the chosen instant and not the local input; a failed validation hands
\* nothing over.
C14_PayloadOnlyWhenValid ==
  /\ formPc = "awaiting" =>
       LET p == submitted[Len(submitted)]
       IN  /\ validate(values, clock) = NoErrors
           /\ p.guestName = Str(CoreOf(values.guestName.v))
           /\ Len(p.guestName.v) \in 2..80
           /\ OptionalTrimmed(p.phone, values.phone.v)
           /\ OptionalTrimmed(p.notes, values.notes.v)
           /\ p.size.t = "number"
           /\ isFinite(p.size)
           /\ Times10(p.size) >= 10
           /\ Times10(p.size) <= 200
           /\ p.time.t = "string"
           /\ p.time # values.time
           /\ IsoInstant(p.time.v).valid
           /\ IsoInstant(p.time.v) = DateParse(values.time.v)
  /\ (Validated /\ DOMAIN errors # {}) => submitted = <<>>

C14_Witness ==
  /\ formPc = "awaiting"
  /\ values.guestName = Str(" " \o Name80 \o " ")
  /\ values.phone = Str(" 555-0101 ")
  /\ values.size = Str("5")
  /\ submitted[1].notes = Undefined
  /\ submitted[1].time = Str("2024-03-01T10:15:00.000Z")

\* C15: a rejected submission leaves the values as entered and adds only the
\* generic _form message to the error mapping; the form is cleared only when
\* the submission of a create form has succeeded.
RejectionStep ==
  (formPc = "awaiting" /\ formPc' = "rejected") =>
    /\ values' = values
    /\ touched' = touched
    /\ DOMAIN errors' = DOMAIN errors \cup {"_form"}
    /\ errors'["_form"] = formErrorMessage
    /\ \A k \in DOMAIN errors \ {"_form"} : errors'[k] = errors[k]

ResetStep ==
  (touched # {} /\ touched' = {}) =>
    /\ formPc = "awaiting"
    /\ formPc' = "resolved"
    /\ ~hasId
    /\ values' = clearedValues(clock)
    /\ errors' = NoErrors

C15_RejectionCaughtValuesKept == [][RejectionStep /\ ResetStep]_vars

C15_Witness ==
  /\ formPc = "rejected"
  /\ DOMAIN errors = {"phone", "_form"}
  /\ values.guestName = Str(" Al ")
  /\ values.phone = Str("abc")

(***************************************************************************)
(* useReservations and the reservations page                               *)
(*                                                                         *)
(* `inflight` holds the calls of apiList that have not settled, `ops` the  *)
(* create/update/remove calls and the row actions started so far with the  *)
(* position each has reached.  `issued`, `settled` and `lastOk` record     *)
(* how many refreshes were started, how many settled and which response    *)
(* arrived last; `received` and `pushed` count the messages of the socket  *)
(* and the refreshes they started; `uncaught` collects the handlers that   *)
(* let an exception escape or leave a rejection unhandled.  The state      *)
(* cells keep the value last handed to their setter.  `query` is the query *)
(* state, `timers` the interval timers that are set, each with the query   *)
(* its callback closes over, `timerSeq` the last timer id handed out,      *)
(* `isPolling` the memoised flag and `pollMs` the pollIntervalMs option.   *)
(* `toastTimer` is the time elapsed, in milliseconds, since the timer of   *)
(* the toast was set (null when none is pending).                          *)
(***************************************************************************)
MaxRefreshes == 2

MaxOps == 1

MaxMessages == 1

MaxTimers == 3

\* a refresh that takes arrays only and ignores the items of an object
listOfArrayOnly(res) == IF res.t = "array" THEN res ELSE Arr(<<>>)

\* Array.isArray(res) ? res : (res?.items || [])
listOf(res) ==
  IF res.t = "array" THEN res
  ELSE Or(IF PropThrows(res) THEN Undefined ELSE Get(res, "items"), Arr(<<>>))

\* refresh, after apiList resolved: the first response is kept
dataAfterOkKeepFirst(mounted, cur, res) ==
  IF mounted /\ cur = Arr(<<>>) THEN listOf(res) ELSE cur

\* refresh, after apiList resolved
dataAfterOk(mounted, cur, res) == IF mounted THEN listOf(res) ELSE cur

\* refresh, catch
errorAfterFail(mounted, cur, err) == IF mounted THEN err ELSE cur

\* refresh, finally without the flag
loadingAfterSettleUnguarded(mounted, cur) == FALSE

\* refresh, finally
loadingAfterSettle(mounted, cur) == IF mounted THEN FALSE ELSE cur

\* JSON.parse(text) for the texts of the channel: null, an object with no
\* key or with the one key "type", a string, a number; anything else throws.
NoQuote(s) == \A i \in 1..Len(s) : CharAt(s, i) # "\""

JsonParse(s) ==
  IF s = "null" THEN [threw |-> FALSE, value |-> Null]
  ELSE IF s = "{}" THEN [threw |-> FALSE, value |-> [t |-> "object", type |-> Undefined]]
  ELSE IF /\ Len(s) >= 11
          /\ SubSeq(s, 1, 9) = "{\"type\":\""
          /\ SubSeq(s, Len(s) - 1, Len(s)) = "\"}"
          /\ NoQuote(SubSeq(s, 10, Len(s) - 2))
       THEN [threw |-> FALSE,
             value |-> [t |-> "object", type |-> Str(SubSeq(s, 10, Len(s) - 2))]]
  ELSE IF /\ Len(s) >= 2
          /\ CharAt(s, 1) = "\""
          /\ CharAt(s, Len(s)) = "\""
          /\ NoQuote(SubSeq(s, 2, Len(s) - 1))
       THEN [threw |-> FALSE, value |-> Str(SubSeq(s, 2, Len(s) - 1))]
  ELSE IF AllDigits(s) THEN [threw |-> FALSE, value |-> Num(DigitsValue(s))]
  ELSE [threw |-> TRUE, value |-> Undefined]

\* msg && typeof msg === "object" && msg.type, and the cases of the switch
changeEvent(msg) ==
  /\ Truthy(msg)
  /\ msg.t = "object"
  /\ Truthy(msg.type)
  /\ msg.type \in {Str("reservation.updated"), Str("reservation.created"),
                   Str("reservation.deleted")}

\* a handler without the try block that refreshes on every typed message
onmessageOutcomeAnyType(text) ==
  LET parsed == JsonParse(text)
  IN  IF parsed.threw THEN [refresh |-> FALSE, threw |-> TRUE]
      ELSE [refresh |-> parsed.value.t = "object" /\ Truthy(parsed.value.type),
            threw |-> FALSE]

\* ws.onmessage: whether it calls refresh, whether an exception escapes
onmessageOutcome(text) ==
  LET parsed == JsonParse(text)
  IN  IF parsed.threw THEN [refresh |-> FALSE, threw |-> FALSE]
      ELSE [refresh |-> changeEvent(parsed.value), threw |-> FALSE]

Mutations == {"create", "confirm", "cancel", "delete"}

RowActions == {"sendSms", "generateReceipt", "calendarSync"}

\* `q` is the query of the render whose handler made the call
newOp(kind, q) ==
  [kind |-> kind, pc |-> "api", refreshId |-> 0, apiResult |-> Undefined,
   value |-> Undefined, toast |-> "none", q |-> q]

\* create/update/remove that return without awaiting the refresh
afterApiSuccessNoAwait(op, res, id) ==
  [op EXCEPT !.pc = "resolved", !.apiResult = res, !.value = res, !.refreshId = id]

\* create/update/remove once the API call has resolved: `await refresh()`
afterApiSuccess(op, res, id) ==
  [op EXCEPT !.pc = "refresh", !.apiResult = res, !.refreshId = id]

\* create/update/remove once their refresh has settled: `return created`
afterRefresh(op) ==
  IF op.pc = "refresh" THEN [op EXCEPT !.pc = "resolved", !.value = op.apiResult]
  ELSE op

\* the message of the success toast of safeSendSms, safeGenerateReceipt and
\* safeCalendarSync
successMessage(kind, res) ==
  CASE kind = "sendSms" -> "SMS sent successfully"
    [] kind = "generateReceipt" -> "Receipt generated"
    [] OTHER ->
         IF Truthy(res) /\ res.t = "object"
         THEN LET status == JsString(Or(Get(res, "status"), Str("synced")))
                  link == Or(Or(Get(res, "eventLink"), Get(res, "htmlLink")),
                             Get(res, "url"))
              IN  IF Truthy(link)
                  THEN "Calendar " \o status \o ". View event: " \o JsString(link)
                  ELSE "Calendar " \o status
         ELSE "Calendar synced"

\* e?.message || "Failed to ..."
failureMessage(kind, e) ==
  JsString(Or(IF PropThrows(e) THEN Undefined ELSE Get(e, "message"),
              Str(CASE kind = "sendSms" -> "Failed to send SMS"
                    [] kind = "generateReceipt" -> "Failed to generate receipt"
                    [] OTHER -> "Failed to sync calendar")))

\* showToast(message, type)
showToast(message, type) == [message |-> message, type |-> type, ms |-> 3000]

Responses ==
  {Arr(<<Num(1)>>), [t |-> "object", items |-> Arr(<<Num(2)>>)], Null}

ApiError == [t |-> "object", message |-> Str("Network error")]

ApiResults ==
  {[t |-> "object", status |-> Str("created"), eventLink |-> Undefined,
    htmlLink |-> Undefined, url |-> Str("https://cal/e1")],
   Undefined}

Messages ==
  {"{\"type\":\"reservation.created\"}", "{\"type\":\"reservation.updated\"}",
   "{\"type\":\"reservation.deleted\"}", "{\"type\":\"ping\"}", "{}", "null",
   "\"reservation.created\"", "7", "reservation.created"}

\* what the handler does with each text of the channel
MessageOutcomes == [text \in Messages |-> onmessageOutcome(text)]

\* initialQuery of the page: {}
EmptyQuery == [t |-> "object"]

\* the argument the Refresh button hands to its onClick handler
ClickEvent == [t |-> "object", type |-> Str("click")]

\* refresh: const q = overrideQuery || query || {}, `q` being the query of
\* the render that made this refresh
queryOfRefresh(overrideQuery, q) == Or(Or(overrideQuery, q), EmptyQuery)

\* refresh up to `await apiList(q)`: setLoading(true), setError(null) and the
\* call; `op` is the create/update/remove call that awaits it (0 for none)
issueRefresh(op, q) ==
  /\ issued < MaxRefreshes
  /\ issued' = issued + 1
  /\ inflight' = inflight \cup {[id |-> issued + 1, op |-> op, q |-> q]}
  /\ loading' = TRUE
  /\ error' = Null

\* the Refresh button of the list (disabled while loading): onClick is the
\* refresh of the current render, called with the click event
onRefresh ==
  /\ isMounted
  /\ ~loading
  /\ issueRefresh(0, queryOfRefresh(ClickEvent, query))
  /\ UNCHANGED <<data, isMounted, pollTimer, wsOpen, settled, lastOk, ops,
                 toast, received, pushed, uncaught>>
  /\ UNCHANGED <<pollVars, toastTimer>>
  /\ UNCHANGED <<listVars, calVars, formVars, envVars>>

\* the Refresh button of the page (disabled while loading): onClick calls
\* the refresh of the current render without an argument
onPageRefresh ==
  /\ isMounted
  /\ ~loading
  /\ issueRefresh(0, queryOfRefresh(Undefined, query))
  /\ UNCHANGED <<data, isMounted, pollTimer, wsOpen, settled, lastOk, ops,
                 toast, received, pushed, uncaught>>
  /\ UNCHANGED <<pollVars, toastTimer>>
  /\ UNCHANGED <<listVars, calVars, formVars, envVars>>

\* the interval callback of startPolling: the refresh of the render that made
\* the startPolling which set the timer `t`
timerFires(t) ==
  /\ t \in timers
  /\ issueRefresh(0, queryOfRefresh(Undefined, t.q))
  /\ UNCHANGED <<data, isMounted, pollTimer, wsOpen, settled, lastOk, ops,
                 toast, received, pushed, uncaught>>
  /\ UNCHANGED <<pollVars, toastTimer>>
  /\ UNCHANGED <<listVars, calVars, formVars, envVars>>

\* ws.onmessage with evt.data = text; the effect subscribes again with the
\* refresh of every render that changed it
onmessage(text) ==
  /\ wsOpen
  /\ received < MaxMessages
  /\ received' = received + 1
  /\ LET out == MessageOutcomes[text]
     IN  /\ IF out.refresh
            THEN issueRefresh(0, queryOfRefresh(Undefined, query))
                 /\ pushed' = pushed + 1
            ELSE UNCHANGED <<issued, inflight, loading, error, pushed>>
         /\ uncaught' = IF out.threw THEN uncaught \cup {"onmessage"} ELSE uncaught
  /\ UNCHANGED <<data, isMounted, pollTimer, wsOpen, settled, lastOk, ops, toast>>
  /\ UNCHANGED <<pollVars, toastTimer>>
  /\ UNCHANGED <<listVars, calVars, formVars, envVars>>

\* apiList resolves with `res` for the request r
refreshResolved(r, res) ==
  /\ r \in inflight
  /\ inflight' = inflight \ {r}
  /\ settled' = settled + 1
  /\ lastOk' = [id |-> r.id, res |-> res]
  /\ data' = dataAfterOk(isMounted, data, res)
  /\ loading' = loadingAfterSettle(isMounted, loading)
  /\ ops' = [i \in DOMAIN ops |-> IF i = r.op THEN afterRefresh(ops[i]) ELSE ops[i]]
  /\ UNCHANGED <<error, isMounted, pollTimer, wsOpen, issued, toast, received,
                 pushed, uncaught>>
  /\ UNCHANGED <<pollVars, toastTimer>>
  /\ UNCHANGED <<listVars, calVars, formVars, envVars>>

\* apiList rejects for the request r
refreshRejected(r) ==
  /\ r \in inflight
  /\ inflight' = inflight \ {r}
  /\ settled' = settled + 1
  /\ error' = errorAfterFail(isMounted, error, ApiError)
  /\ loading' = loadingAfterSettle(isMounted, loading)
  /\ ops' = [i \in DOMAIN ops |-> IF i = r.op THEN afterRefresh(ops[i]) ELSE ops[i]]
  /\ UNCHANGED <<data, isMounted, pollTimer, wsOpen, issued, lastOk, toast,
                 received, pushed, uncaught>>
  /\ UNCHANGED <<pollVars, toastTimer>>
  /\ UNCHANGED <<listVars, calVars, formVars, envVars>>

\* a call of create (the form's handleCreate), of update (Confirm, Cancel),
\* of remove (Delete) or of safeSendSms, safeGenerateReceipt, safeCalendarSync
startOp(kind) ==
  /\ isMounted
  /\ Len(ops) < MaxOps
  /\ ops' = Append(ops, newOp(kind, query))
  /\ UNCHANGED <<data, loading, error, isMounted, pollTimer, wsOpen, inflight,
                 issued, settled, lastOk, toast, received, pushed, uncaught>>
  /\ UNCHANGED <<pollVars, toastTimer>>
  /\ UNCHANGED <<listVars, calVars, formVars, envVars>>

create == startOp("create")

update(status) == startOp(IF status = "confirmed" THEN "confirm" ELSE "cancel")

remove == startOp("delete")

safeSendSms == startOp("sendSms")

safeGenerateReceipt == startOp("generateReceipt")

safeCalendarSync == startOp("calendarSync")

\* the Toast effect after a render that shows the toast `t`: the timer of the
\* render before is cleared and a new one is set, none of its time elapsed
toastEffect(t) ==
  IF t = Null THEN Null ELSE Num(0)

\* the API call of ops[i] resolves with `res`: create/update/remove go on to
\* refresh, the wrappers of the row actions show the success toast
apiResolved(i, res) ==
  /\ i \in DOMAIN ops
  /\ ops[i].pc = "api"
  /\ IF ops[i].kind \in Mutations
     THEN /\ issueRefresh(i, queryOfRefresh(Undefined, ops[i].q))
          /\ ops' = [ops EXCEPT ![i] = afterApiSuccess(ops[i], res, issued + 1)]
          /\ UNCHANGED <<toast, toastTimer>>
     ELSE /\ ops' = [ops EXCEPT ![i].pc = "resolved", ![i].apiResult = res,
                                ![i].value = res, ![i].toast = "success"]
          /\ toast' = showToast(successMessage(ops[i].kind, res), "success")
          /\ toastTimer' = IF isMounted THEN toastEffect(toast') ELSE toastTimer
          /\ UNCHANGED <<issued, inflight, loading, error>>
  /\ UNCHANGED <<data, isMounted, pollTimer, wsOpen, settled, lastOk, received,
                 pushed, uncaught>>
  /\ UNCHANGED pollVars
  /\ UNCHANGED <<listVars, calVars, formVars, envVars>>

\* whether the caller of the action catches its rejection: the form's
\* handleSubmit and the list's handleCalendarSync do; the Confirm, Cancel,
\* Delete and Receipt buttons and the `.then` of Send SMS do not
callerCatches(kind) == kind \in {"create", "calendarSync"}

\* the API call of ops[i] rejects: create/update/remove pass the rejection
\* on, the wrappers of the row actions show the error toast and rethrow
apiRejected(i) ==
  /\ i \in DOMAIN ops
  /\ ops[i].pc = "api"
  /\ IF ops[i].kind \in Mutations
     THEN /\ ops' = [ops EXCEPT ![i].pc = "rejected", ![i].value = ApiError]
          /\ UNCHANGED <<toast, toastTimer>>
     ELSE /\ ops' = [ops EXCEPT ![i].pc = "rejected", ![i].value = ApiError,
                                ![i].toast = "error"]
          /\ toast' = showToast(failureMessage(ops[i].kind, ApiError), "error")
          /\ toastTimer' = IF isMounted THEN toastEffect(toast') ELSE toastTimer
  /\ uncaught' = IF callerCatches(ops[i].kind) THEN uncaught
                 ELSE uncaught \cup {ops[i].kind}
  /\ UNCHANGED <<data, loading, error, isMounted, pollTimer, wsOpen, inflight,
                 issued, settled, lastOk, received, pushed>>
  /\ UNCHANGED pollVars
  /\ UNCHANGED <<listVars, calVars, formVars, envVars>>

\* a stopPolling that forgets the timer without clearing it
clearedNone(ts, ref) == ts

\* stopPolling: clearInterval(pollTimer.current) when the ref holds a timer
cleared(ts, ref) == IF Truthy(ref) THEN {t \in ts : Num(t.id) # ref} ELSE ts

\* startPolling: typeof intervalMs === "number" ? intervalMs : pollIntervalMs
intervalOf(intervalMs, pollIntervalMs) ==
  IF intervalMs.t = "number" THEN intervalMs.v ELSE pollIntervalMs

\* stopPolling
stopPolling ==
  /\ timers' = cleared(timers, pollTimer)
  /\ pollTimer' = Null
  /\ UNCHANGED timerSeq

\* startPolling(intervalMs) of the current render: nothing for an interval
\* that is missing, zero or negative, else the old timer is stopped and a new
\* one set whose callback calls the refresh of this render
startPolling(intervalMs) ==
  LET ms == intervalOf(intervalMs, pollMs)
  IN  IF ms <= 0 THEN UNCHANGED <<timers, pollTimer, timerSeq>>
      ELSE /\ timerSeq < MaxTimers
           /\ timerSeq' = timerSeq + 1
           /\ timers' = cleared(timers, pollTimer)
                          \cup {[id |-> timerSeq + 1, q |-> query]}
           /\ pollTimer' = Num(timerSeq + 1)

\* a caller of the hook stops the polling
onStopPolling ==
  /\ isMounted
  /\ stopPolling
  /\ UNCHANGED <<data, loading, error, isMounted, wsOpen, inflight, issued,
                 settled, lastOk, ops, toast, received, pushed, uncaught>>
  /\ UNCHANGED <<query, isPolling, pollMs, toastTimer>>
  /\ UNCHANGED <<listVars, calVars, formVars, envVars>>

\* a caller of the hook starts the polling
onStartPolling(intervalMs) ==
  /\ isMounted
  /\ startPolling(intervalMs)
  /\ UNCHANGED <<data, loading, error, isMounted, wsOpen, inflight, issued,
                 settled, lastOk, ops, toast, received, pushed, uncaught>>
  /\ UNCHANGED <<query, isPolling, pollMs, toastTimer>>
  /\ UNCHANGED <<listVars, calVars, formVars, envVars>>

\* the polling button of the page
onTogglePolling ==
  /\ isMounted
  /\ IF isPolling
     THEN stopPolling /\ pollMs' = 0
     ELSE startPolling(Num(15000)) /\ pollMs' = 15000
  /\ UNCHANGED <<data, loading, error, isMounted, wsOpen, inflight, issued,
                 settled, lastOk, ops, toast, received, pushed, uncaught>>
  /\ UNCHANGED <<query, isPolling, toastTimer>>
  /\ UNCHANGED <<listVars, calVars, formVars, envVars>>

\* the page renders again while the toast is shown: onClose is a new
\* function, so the effect of Toast runs again
rerender ==
  /\ isMounted
  /\ toast # Null
  /\ toastTimer' = toastEffect(toast)
  /\ UNCHANGED hookVars
  /\ UNCHANGED pollVars
  /\ UNCHANGED <<listVars, calVars, formVars, envVars>>

\* a second passes without the timer of the toast being due
tick ==
  /\ toastTimer # Null
  /\ toastTimer.v < toast.ms
  /\ toastTimer' = Num(toastTimer.v + 1000)
  /\ UNCHANGED hookVars
  /\ UNCHANGED pollVars
  /\ UNCHANGED <<listVars, calVars, formVars, envVars>>

\* the callback of the timer of the toast: onClose?.(), that is setToast(null)
toastTimeout ==
  /\ toastTimer # Null
  /\ toastTimer.v >= toast.ms
  /\ toast' = Null
  /\ toastTimer' = Null
  /\ UNCHANGED <<data, loading, error, isMounted, pollTimer, wsOpen, inflight,
                 issued, settled, lastOk, ops, received, pushed, uncaught>>
  /\ UNCHANGED pollVars
  /\ UNCHANGED <<listVars, calVars, formVars, envVars>>

\* the close button of the toast: onClose, and the cleanup of the effect
closeToast ==
  /\ isMounted
  /\ toast # Null
  /\ toast' = Null
  /\ toastTimer' = Null
  /\ UNCHANGED <<data, loading, error, isMounted, pollTimer, wsOpen, inflight,
                 issued, settled, lastOk, ops, received, pushed, uncaught>>
  /\ UNCHANGED pollVars
  /\ UNCHANGED <<listVars, calVars, formVars, envVars>>

\* the cleanups of the effects: the flag is cleared, the timer stopped, the
\* socket closed and the timer of the toast cleared
unmount ==
  /\ isMounted
  /\ isMounted' = FALSE
  /\ stopPolling
  /\ wsOpen' = FALSE
  /\ toastTimer' = Null
  /\ UNCHANGED <<data, loading, error, inflight, issued, settled, lastOk, ops,
                 toast, received, pushed, uncaught>>
  /\ UNCHANGED <<query, isPolling, pollMs>>
  /\ UNCHANGED <<listVars, calVars, formVars, envVars>>

\* after the first render and its effects: the flag is set, the first
\* refresh is under way, the timer runs if pollIntervalMs is positive and
\* the socket is open if it is enabled; isPolling was computed during the
\* render, when the ref of the timer was still null
HookInit ==
  /\ data = Arr(<<>>)
  /\ loading = TRUE
  /\ error = Null
  /\ isMounted = TRUE
  /\ pollMs \in {0, 15000}
  /\ query = EmptyQuery
  /\ timers = IF pollMs > 0 THEN {[id |-> 1, q |-> query]} ELSE {}
  /\ pollTimer = IF pollMs > 0 THEN Num(1) ELSE Null
  /\ timerSeq = IF pollMs > 0 THEN 1 ELSE 0
  /\ isPolling = Truthy(Null)
  /\ wsOpen \in BOOLEAN
  /\ inflight = {[id |-> 1, op |-> 0, q |-> queryOfRefresh(Undefined, query)]}
  /\ issued = 1
  /\ settled = 0
  /\ lastOk = Null
  /\ ops = <<>>
  /\ toast = Null
  /\ toastTimer = Null
  /\ received = 0
  /\ pushed = 0
  /\ uncaught = {}
  /\ env = Undefined
  /\ basename = Undefined
  /\ reservations = Null
  /\ filters = EmptyFilters
  /\ filtered = [threw |-> FALSE, value |-> <<>>]
  /\ calReservations = <<>>
  /\ weekStart = DateOf(0)
  /\ days = <<>>
  /\ itemsByDay = [threw |-> FALSE, map |-> <<>>]
  /\ lastNav = "none"
  /\ values = <<>>
  /\ touched = {}
  /\ errors = <<>>
  /\ formPc = "idle"
  /\ submitted = <<>>
  /\ clock = 0
  /\ hasId = FALSE

HookNext ==
  \/ onRefresh
  \/ onPageRefresh
  \/ \E t \in timers : timerFires(t)
  \/ \E text \in Messages : onmessage(text)
  \/ \E r \in inflight : \E res \in Responses : refreshResolved(r, res)
  \/ \E r \in inflight : refreshRejected(r)
  \/ create
  \/ \E status \in {"confirmed", "cancelled"} : update(status)
  \/ remove
  \/ \E i \in DOMAIN ops : \E res \in ApiResults : apiResolved(i, res)
  \/ \E i \in DOMAIN ops : apiRejected(i)
  \/ unmount

\* the page: the hook and the row actions of the list
PageNext ==
  \/ HookNext
  \/ safeSendSms
  \/ safeGenerateReceipt
  \/ safeCalendarSync

\* the actions of the page and the refreshes they and the Refresh button
\* start, without the timer and the socket
ActionsNext ==
  \/ onRefresh
  \/ onPageRefresh
  \/ \E r \in inflight : \E res \in Responses : refreshResolved(r, res)
  \/ \E r \in inflight : refreshRejected(r)
  \/ create
  \/ \E status \in {"confirmed", "cancelled"} : update(status)
  \/ remove
  \/ safeSendSms
  \/ safeGenerateReceipt
  \/ safeCalendarSync
  \/ \E i \in DOMAIN ops : \E res \in ApiResults : apiResolved(i, res)
  \/ \E i \in DOMAIN ops : apiRejected(i)
  \/ unmount

\* the intervals a caller hands to startPolling: none, zero, negative, positive
Intervals == {Undefined, Num(0), Num(0 - 1), Num(5000)}

\* the hook under filter changes and the polling controls
PollingNext ==
  \/ onRefresh
  \/ onPageRefresh
  \/ \E t \in timers : timerFires(t)
  \/ \E r \in inflight : \E res \in Responses : refreshResolved(r, res)
  \/ \E r \in inflight : refreshRejected(r)
  \/ isMounted /\ \E value \in FilterValues.status :
                     handleFilterChange("status", value)
  \/ \E intervalMs \in Intervals : onStartPolling(intervalMs)
  \/ onStopPolling
  \/ onTogglePolling
  \/ unmount

\* the page with its toast and the passing of time
ToastNext ==
  \/ safeSendSms
  \/ safeGenerateReceipt
  \/ safeCalendarSync
  \/ \E i \in DOMAIN ops : \E res \in ApiResults : apiResolved(i, res)
  \/ \E i \in DOMAIN ops : apiRejected(i)
  \/ rerender
  \/ tick
  \/ toastTimeout
  \/ closeToast
  \/ unmount

SpecHook == HookInit /\ [][HookNext]_vars

SpecPage == HookInit /\ [][PageNext]_vars

SpecActions == HookInit /\ [][ActionsNext]_vars

SpecPolling == HookInit /\ [][PollingNext]_vars

\* the clock advances and a timer that is due runs its callback
SpecToast ==
  HookInit /\ [][ToastNext]_vars /\ WF_vars(tick) /\ WF_vars(toastTimeout)

(***************************************************************************)
(* Properties of the hook and the page                                     *)
(***************************************************************************)
\* the request with the identity n is still in flight
InFlight(n) == \E r \in inflight : r.id = n

\* C16: create, update and remove issue their refresh after, and only after,
\* the API call has succeeded; their promise resolves with the API result
\* only when that refresh has finished; a failed API call issues no refresh
\* and its rejection is passed to the caller.
C16_RefreshAfterSuccessOnly ==
  \A i \in DOMAIN ops :
    ops[i].kind \in Mutations =>
      /\ ops[i].pc \in {"api", "rejected"} =>
           /\ ops[i].refreshId = 0
           /\ ~\E r \in inflight : r.op = i
      /\ ops[i].pc = "rejected" => ops[i].value = ApiError
      /\ ops[i].pc = "refresh" =>
           /\ \E r \in inflight : r.op = i /\ r.id = ops[i].refreshId
           /\ ops[i].value = Undefined
      /\ ops[i].pc = "resolved" =>
           /\ ops[i].refreshId \in 1..issued
           /\ ~InFlight(ops[i].refreshId)
           /\ ops[i].value = ops[i].apiResult

C16_Witness ==
  /\ Len(ops) >= 1
  /\ ops[1].kind = "create"
  /\ ops[1].pc = "resolved"
  /\ ops[1].refreshId = 2
  /\ ops[1].value # Undefined
  /\ InFlight(1)

\* the row actions of the list
ListActions == {"confirm", "cancel", "delete", "sendSms", "generateReceipt",
                "calendarSync"}

\* C17: every row action (confirm, cancel, delete, send SMS, generate
\* receipt, calendar sync) is followed by a refresh of the list and has its
\* success or failure reported through a toast.
C17_RowActionsRefreshAndNotify ==
  \A i \in DOMAIN ops :
    ops[i].kind \in ListActions =>
      /\ ops[i].pc = "resolved" => ops[i].refreshId # 0
      /\ ops[i].pc \in {"resolved", "rejected"} => ops[i].toast # "none"

\* the list a response stands for: the array, else its items, else none
ExpectedList(res) ==
  IF res.t = "array" THEN res
  ELSE IF res.t = "object" /\ res.items.t = "array" THEN res.items
  ELSE Arr(<<>>)

\* the response of the successful refresh that resolved last is shown
LastResponseShown ==
  (isMounted /\ inflight = {} /\ lastOk # Null) => data = ExpectedList(lastOk.res)

\* a request leaves the set of those in flight only by settling itself
NoneCancelled ==
  \A r \in inflight :
    r \notin inflight' => (settled' = settled + 1 /\ inflight' = inflight \ {r})

\* C18: overlapping refreshes are last-write-wins by resolution order: none
\* is cancelled, and once all have settled the list shown is the response of
\* the successful refresh that resolved last, even one issued earlier.
C18_LastWriteWins == [](LastResponseShown) /\ [][NoneCancelled]_vars

C18_Witness ==
  /\ isMounted
  /\ inflight = {}
  /\ issued = 2
  /\ settled = 2
  /\ error = Null
  /\ lastOk = [id |-> 1, res |-> [t |-> "object", items |-> Arr(<<Num(2)>>)]]
  /\ data = Arr(<<Num(2)>>)

\* a refresh settles after the unmount
SettlesUnmounted == ~isMounted /\ settled' = settled + 1

\* C19: once the view has unmounted, a refresh that resolves or rejects
\* changes none of data, error and loading.
C19_NoUpdateAfterUnmount ==
  [][SettlesUnmounted => (data' = data /\ error' = error /\ loading' = loading)]_vars

C19_Witness ==
  /\ ~isMounted
  /\ inflight = {}
  /\ settled = 1
  /\ lastOk = [id |-> 1, res |-> Arr(<<Num(1)>>)]
  /\ data = Arr(<<>>)
  /\ loading

\* the text is a JSON object whose type is one of the three change events
ChangeEventText(text) ==
  text \in {"{\"type\":\"reservation." \o kind \o "\"}" :
              kind \in {"created", "updated", "deleted"}}

\* C20: a message of the socket starts exactly one refresh when its type is
\* reservation.created, reservation.updated or reservation.deleted and none
\* otherwise (another type, no type, not JSON); it never changes the list
\* itself and lets no exception escape.
MessageStep ==
  received' # received =>
    \A text \in Messages :
      onmessage(text) =>
        /\ issued' = issued + (IF ChangeEventText(text) THEN 1 ELSE 0)
        /\ Cardinality(inflight') = Cardinality(inflight)
                                      + (IF ChangeEventText(text) THEN 1 ELSE 0)
        /\ data' = data
        /\ uncaught' = uncaught

C20_PushTriggersOneRefresh ==
  [][MessageStep]_vars /\ []("onmessage" \notin uncaught)

C20_Witness ==
  /\ wsOpen
  /\ received = 1
  /\ pushed = 1
  /\ issued = 2
  /\ Cardinality(inflight) = 2
  /\ data = Arr(<<>>)

\* C21: every failure of an external call started from the UI is caught
\* where the call is made, so that no rejection is left unhandled, and a
\* failed send SMS, generate receipt or calendar sync shows an error toast.
C21_EveryFailureCaught ==
  /\ uncaught = {}
  /\ \A i \in DOMAIN ops :
       (ops[i].kind \in RowActions /\ ops[i].pc = "rejected") =>
         (ops[i].toast = "error" /\ toast # Null /\ toast.type = "error")

\* a refresh settles with a response in this step
FetchSucceeds == lastOk' # lastOk

\* a refresh settles with a rejection in this step
FetchFails == settled' = settled + 1 /\ lastOk' = lastOk

ListStep ==
  /\ data' # data => (isMounted /\ FetchSucceeds)
  /\ (isMounted /\ FetchSucceeds) => data' = ExpectedList(lastOk'.res)
  /\ FetchFails => (data' = data /\ (isMounted => error' = ApiError))
  /\ (ops' # ops /\ settled' = settled) => data' = data

\* C22: the held list changes only when a fetch succeeds, and is then the
\* list of that response (the array, else its items, else the empty list); a
\* failed refresh leaves the list as it was and records the error; create,
\* update, remove and the SMS, receipt and calendar actions leave the list
\* alone.
C22_ListChangesOnlyOnSuccess == [][ListStep]_vars

C22_Witness ==
  /\ isMounted
  /\ settled = 2
  /\ lastOk = [id |-> 1, res |-> [t |-> "object", items |-> Arr(<<Num(2)>>)]]
  /\ data = Arr(<<Num(2)>>)
  /\ error = ApiError
  /\ Len(ops) = 1
  /\ ops[1].kind = "sendSms"
  /\ ops[1].pc = "resolved"

\* C28: while the view is mounted, loading is true exactly when at least one
\* refresh is in flight.
C28_LoadingIffInFlight == isMounted => (loading <=> inflight # {})

\* the step in which the last refresh in flight settles
LastSettleStep ==
  (isMounted /\ settled' = settled + 1 /\ inflight' = {}) =>
    (error' # Null <=> FetchFails)

\* C29: while the view is mounted and no refresh is in flight, error is
\* non-null exactly when the refresh that settled most recently failed.
C29_ErrorIffLastSettledFailed == [][LastSettleStep]_vars

\* the page's toggle stops a running timer and starts one when none runs
ToggleStep ==
  onTogglePolling =>
    /\ timers # {} => timers' = {}
    /\ timers = {} => timers' # {}

\* C23: isPolling is true exactly when a poll timer is active, so that the
\* polling toggle of the page stops the polling when it runs and starts it
\* when it does not.
C23_IsPollingReflectsTimer ==
  [](isPolling <=> timers # {}) /\ [][ToggleStep]_vars

\* the parameters a query object sends: its keys with a defined value
Params(q) ==
  LET keys == {k \in DOMAIN q \ {"t"} : q[k] # Undefined}
  IN  [k \in keys |-> q[k]]

\* the request issued in this step carries the parameters of the current query
FetchesCurrentQuery ==
  \E r \in inflight' \ inflight : Params(r.q) = Params(query)

\* C26: every refresh issued by the polling timer fetches with the query most
\* recently set through setQuery at the moment the timer fires.
C26_TimerUsesCurrentQuery ==
  [][\A t \in timers : timerFires(t) => FetchesCurrentQuery]_vars

\* C27: the Refresh button of the list fetches with exactly the current
\* query: its click event is not taken as the query.
C27_RefreshButtonUsesCurrentQuery == [][onRefresh => FetchesCurrentQuery]_vars

\* the timer the ref points at is the only one
OneTimer ==
  /\ Cardinality(timers) <= 1
  /\ \A t \in timers : pollTimer = Num(t.id)
  /\ ~isMounted => timers = {}

\* the interval startPolling uses for the argument intervalMs
EffectiveInterval(intervalMs) ==
  IF intervalMs = Undefined THEN pollMs ELSE intervalMs.v

PollingStep ==
  /\ \A intervalMs \in Intervals :
       onStartPolling(intervalMs) =>
         IF EffectiveInterval(intervalMs) > 0
         THEN Cardinality(timers') = 1 /\ timers' \cap timers = {}
         ELSE timers' = timers
  /\ onStopPolling => timers' = {}
  /\ ~isMounted => issued' = issued

\* C30 as stated: startPolling without an interval creates no timer and
\* leaves the existing one.
C30_MissingIntervalCreatesNone ==
  [][onStartPolling(Undefined) => timers' = timers]_vars

\* C30 amended: at most one poll timer is active; startPolling replaces the
\* timer when its interval (the argument if it is a number, else the
\* pollIntervalMs option) is positive, creates none and leaves the existing
\* one when that interval is zero or negative; stopPolling leaves none; after
\* unmount no timer is active and no refresh is issued.
C30_AtMostOneTimer == [](OneTimer) /\ [][PollingStep]_vars

C30_Witness ==
  /\ isMounted
  /\ timerSeq = 3
  /\ pollTimer = Num(3)
  /\ Cardinality(timers) = 1
  /\ pollMs = 15000

\* C24: a toast that is shown is closed in the end, by its timer unless the
\* user closes it first, also when the page renders again; and no timer is
\* left pending once the toast is gone.
C24_ToastEventuallyCloses ==
  /\ (isMounted /\ toast # Null) ~> (~isMounted \/ toast = Null)
  /\ []((~isMounted \/ toast = Null) => toastTimer = Null)

(***************************************************************************)
(* getRouterBasename of theme.js                                           *)
(*                                                                         *)
(* `env` is process.env.REACT_APP_FRONTEND_URL and `basename` the string   *)
(* returned for it.  new URL(s) is modelled for texts without dot          *)
(* segments, percent signs, backslashes, tabs and line breaks.             *)
(***************************************************************************)
startsWith(s, prefix) ==
  Len(s) >= Len(prefix) /\ SubSeq(s, 1, Len(prefix)) = prefix

endsWith(s, suffix) ==
  Len(s) >= Len(suffix) /\ SubSeq(s, Len(s) - Len(suffix) + 1, Len(s)) = suffix

IsAlpha(c) == \E i \in 1..26 : Upper[i] = c \/ Lower[i] = c

IsSchemeChar(c) == IsAlpha(c) \/ IsDigit(c) \/ c \in {"+", "-", "."}

\* the index of the ":" that ends the scheme of s, 0 when s has no scheme
SchemeEnd(s) ==
  LET ends(i) == /\ CharAt(s, i) = ":"
                 /\ \A j \in 2..(i - 1) : IsSchemeChar(CharAt(s, j))
  IN  IF Len(s) > 0 /\ IsAlpha(CharAt(s, 1)) /\ \E i \in 2..Len(s) : ends(i)
      THEN CHOOSE i \in 2..Len(s) : ends(i)
      ELSE 0

\* the index of the first character of s that is in cs, Len(s) + 1 if none
FirstOf(s, cs) ==
  LET first(i) == /\ CharAt(s, i) \in cs
                  /\ \A j \in 1..(i - 1) : CharAt(s, j) \notin cs
  IN  IF \E i \in 1..Len(s) : first(i) THEN CHOOSE i \in 1..Len(s) : first(i)
      ELSE Len(s) + 1

RECURSIVE dropSlashes(_)
dropSlashes(s) ==
  IF Len(s) > 0 /\ CharAt(s, 1) = "/" THEN dropSlashes(SubSeq(s, 2, Len(s)))
  ELSE s

\* the path of a URL keeps its characters but for the space
RECURSIVE encodePath(_)
encodePath(s) ==
  IF s = "" THEN ""
  ELSE (IF CharAt(s, 1) = " " THEN "%20" ELSE CharAt(s, 1))
         \o encodePath(SubSeq(s, 2, Len(s)))

SpecialSchemes == {"http", "https", "ws", "wss", "ftp"}

\* host[:port] is acceptable: a host without a space, a port of digits
ValidAuthority(a) ==
  LET colon == FirstOf(a, {":"})
      host == SubSeq(a, 1, colon - 1)
      port == SubSeq(a, colon + 1, Len(a))
  IN  /\ host # ""
      /\ \A i \in 1..Len(host) : CharAt(host, i) # " "
      /\ port = "" \/ AllDigits(port)

\* new URL(s): whether it throws, and the pathname of the URL if not
URLParse(s) ==
  LET e == SchemeEnd(s)
      scheme == toLowerCase(SubSeq(s, 1, e - 1))
      rest == SubSeq(s, e + 1, Len(s))
      failed == [threw |-> TRUE, pathname |-> ""]
  IN  IF e = 0 THEN failed
      ELSE IF scheme \in SpecialSchemes
      THEN LET r == dropSlashes(rest)
               a == FirstOf(r, {"/", "?", "#"})
               tail == SubSeq(r, a, Len(r))
               path == SubSeq(tail, 1, FirstOf(tail, {"?", "#"}) - 1)
           IN  IF ~ValidAuthority(SubSeq(r, 1, a - 1)) THEN failed
               ELSE [threw |-> FALSE,
                     pathname |-> IF path = "" THEN "/" ELSE encodePath(path)]
      ELSE IF startsWith(rest, "//")
      THEN LET r == SubSeq(rest, 3, Len(rest))
               a == FirstOf(r, {"/", "?", "#"})
               tail == SubSeq(r, a, Len(r))
           IN  [threw |-> FALSE,
                pathname |-> encodePath(SubSeq(tail, 1, FirstOf(tail, {"?", "#"}) - 1))]
      ELSE [threw |-> FALSE,
            pathname |-> SubSeq(rest, 1, FirstOf(rest, {"?", "#"}) - 1)]

normalizePathOnly(pathname) ==
  LET p == trim(pathname)
      withLead == IF startsWith(p, "/") THEN p ELSE "/" \o p
  IN  IF p = "" THEN "/"
      ELSE IF withLead # "/" /\ endsWith(withLead, "/")
      THEN SubSeq(withLead, 1, Len(withLead) - 1)
      ELSE withLead

getRouterBasename(e) ==
  IF ~Truthy(e) \/ e.t # "string" THEN "/"
  ELSE LET s == trim(e.v)
       IN  IF startsWith(s, "/") THEN normalizePathOnly(s)
           ELSE LET u == URLParse(s)
                IN  IF u.threw THEN "/"
                    ELSE normalizePathOnly(IF u.pathname = "" THEN "/"
                                           ELSE u.pathname)

\* values of REACT_APP_FRONTEND_URL: unset, and an origin (none, two URLs, a
\* host with a port, a bare host) followed by a path, with or without blanks
\* around it
EnvOrigins ==
  {"", "https://example.com", "http://localhost:3000", "localhost:3000",
   "example.com"}

EnvPaths == {"", "/", "/app", "/app/", "/app//", "/nested/app/", "//"}

EnvInputs ==
  {Undefined} \cup
  {Str(blank \o origin \o path \o blank) :
     blank \in {"", " "}, origin \in EnvOrigins, path \in EnvPaths}

\* the basename of every value, computed once
Basenames == [e \in EnvInputs |-> getRouterBasename(e)]

\* the router is built: <BrowserRouter basename={getRouterBasename()}>
readBasename ==
  /\ basename = Undefined
  /\ basename' = Str(Basenames[env])
  /\ UNCHANGED env
  /\ UNCHANGED <<listVars, calVars, formVars, hookVars, pollVars, toastTimer>>

BasenameInit ==
  /\ env \in EnvInputs
  /\ basename = Undefined
  /\ reservations = Null
  /\ filters = EmptyFilters
  /\ filtered = [threw |-> FALSE, value |-> <<>>]
  /\ calReservations = <<>>
  /\ weekStart = DateOf(0)
  /\ days = <<>>
  /\ itemsByDay = [threw |-> FALSE, map |-> <<>>]
  /\ lastNav = "none"
  /\ values = <<>>
  /\ touched = {}
  /\ errors = <<>>
  /\ formPc = "idle"
  /\ submitted = <<>>
  /\ clock = 0
  /\ hasId = FALSE
  /\ data = [t |-> "array", items |-> <<>>]
  /\ loading = FALSE
  /\ error = Null
  /\ isMounted = FALSE
  /\ pollTimer = Null
  /\ wsOpen = FALSE
  /\ inflight = {}
  /\ issued = 0
  /\ settled = 0
  /\ lastOk = Null
  /\ ops = <<>>
  /\ toast = Null
  /\ received = 0
  /\ pushed = 0
  /\ uncaught = {}
  /\ query = [t |-> "object"]
  /\ timers = {}
  /\ timerSeq = 0
  /\ isPolling = FALSE
  /\ pollMs = 0
  /\ toastTimer = Null

BasenameNext == readBasename

SpecBasename == BasenameInit /\ [][BasenameNext]_vars

\* the value is unset or blank
Unset == env = Undefined \/ trim(env.v) = ""

\* C25: for every value of REACT_APP_FRONTEND_URL the basename starts with
\* "/" and has no trailing "/" unless it is exactly "/", and an unset or
\* empty value yields "/".
C25_BasenamePathOnly ==
  basename # Undefined =>
    /\ startsWith(basename.v, "/")
    /\ endsWith(basename.v, "/") => basename.v = "/"
    /\ Unset => basename.v = "/"

====
